---- MODULE Spec2Model ----
(***************************************************************************)
(* Optical Soundtrack Reader: the image-to-waveform extraction pipeline    *)
(* (js/image-processor.js) and its caller App.extractWaveform (js/app.js). *)
(*                                                                         *)
(* Numbers.  JavaScript Numbers are modelled as exact rationals <<n, d>>   *)
(* in lowest terms with d > 0.  The pixel values the model draws are grey  *)
(* levels whose luminance and contrast stretch are integers, so that every *)
(* comparison the pipeline makes up to the boundary scan (value >          *)
(* threshold, Math.floor(value)) has the same outcome on the rational as   *)
(* on its Float32 rounding.                                                *)
(***************************************************************************)
EXTENDS Integers, Sequences, FiniteSets, TLC

(***************************************************************************)
(* Program constants                                                       *)
(***************************************************************************)
MIN_ROI == 20
BLUR_RADIUS == 3
SMOOTH_WINDOW == 5
HIST_BINS == 256
CHANNELS == 4
APP_MIN_ROI == 20
MIN_SELECTION == 20

(***************************************************************************)
(* Bounds of the model                                                     *)
(***************************************************************************)
\* the pixel buffer is (MIN_ROI + MaxPad) pixels wide and high
MaxPad == 1

\* the pointer displacement of a move of the region selector, in pixels
Reach == 30

\* the getUserMedia calls that may be waiting at once, and the streams the
\* browser grants in all
MaxRequests == 1

MaxStreams == 2

\* the extraction timers and the startPlayback calls that may be waiting at
\* once, and the buffer sources made in all
MaxTimers == 1

MaxCalls == 1

MaxSources == 2

(***************************************************************************)
(* Exact rational arithmetic                                               *)
(***************************************************************************)
Abs(a) == IF a < 0 THEN -a ELSE a

RECURSIVE GCD(_, _)
GCD(a, b) == IF b = 0 THEN a ELSE GCD(b, a % b)

Frac(n, d) ==
    IF n = 0 THEN <<0, 1>>
    ELSE LET g == GCD(Abs(n), d) IN <<n \div g, d \div g>>

FInt(n) == <<n, 1>>

FAdd(a, b) ==
    IF a[2] = b[2] THEN Frac(a[1] + b[1], a[2])
    ELSE LET g == GCD(a[2], b[2])
             l == (a[2] \div g) * b[2]
         IN  Frac(a[1] * (l \div a[2]) + b[1] * (l \div b[2]), l)

FNeg(a) == <<-a[1], a[2]>>

FSub(a, b) == FAdd(a, FNeg(b))

FMul(a, b) ==
    LET g1 == GCD(Abs(a[1]), b[2])
        g2 == GCD(Abs(b[1]), a[2])
    IN  IF a[1] = 0 \/ b[1] = 0 THEN <<0, 1>>
        ELSE <<(a[1] \div g1) * (b[1] \div g2), (a[2] \div g2) * (b[2] \div g1)>>

\* a / b for b # 0
FDiv(a, b) ==
    IF b[1] > 0 THEN FMul(a, <<b[2], b[1]>>) ELSE FMul(a, <<-b[2], -b[1]>>)

FLess(a, b) == a[1] * b[2] < b[1] * a[2]

FFloor(a) == a[1] \div a[2]

FAbs(a) == <<Abs(a[1]), a[2]>>

(***************************************************************************)
(* Exact comparison of Otsu's between-class variances.  A variance is kept *)
(* as num^2 / den; two of them are compared by cross multiplication on     *)
(* little-endian base-10000 digit sequences, since the products exceed the *)
(* 32-bit integers of TLC.                                                 *)
(***************************************************************************)
BigBase == 10000

BigOf(n) == <<n % BigBase, (n \div BigBase) % BigBase, n \div (BigBase * BigBase)>>

BigDigit(x, k) == IF k \in 1..Len(x) THEN x[k] ELSE 0

RECURSIVE BigCarry(_, _, _, _)
BigCarry(raw, k, c, acc) ==
    IF k > Len(raw) THEN (IF c = 0 THEN acc ELSE Append(acc, c))
    ELSE LET v == raw[k] + c
         IN  BigCarry(raw, k + 1, v \div BigBase, Append(acc, v % BigBase))

RECURSIVE BigConv(_, _, _, _)
BigConv(x, y, k, i) ==
    IF i > Len(x) THEN 0
    ELSE x[i] * BigDigit(y, k - i + 1) + BigConv(x, y, k, i + 1)

BigMul(x, y) ==
    BigCarry([k \in 1..(Len(x) + Len(y)) |-> BigConv(x, y, k, 1)], 1, 0, <<>>)

RECURSIVE BigLessFrom(_, _, _)
BigLessFrom(x, y, k) ==
    IF k = 0 THEN FALSE
    ELSE IF BigDigit(x, k) # BigDigit(y, k) THEN BigDigit(x, k) < BigDigit(y, k)
    ELSE BigLessFrom(x, y, k - 1)

BigLess(x, y) == BigLessFrom(x, y, IF Len(x) > Len(y) THEN Len(x) ELSE Len(y))

\* mutant: ">=" for ">", so that a later candidate of equal variance wins
VarGreaterEq(v1, v2) ==
    ~BigLess(BigMul(BigMul(BigOf(v1.num), BigOf(v1.num)), BigOf(v2.den)),
             BigMul(BigMul(BigOf(v2.num), BigOf(v2.num)), BigOf(v1.den)))

\* v1 > v2 for variances v = [num, den], value num^2 / den
VarGreater(v1, v2) ==
    BigLess(BigMul(BigMul(BigOf(v2.num), BigOf(v2.num)), BigOf(v1.den)),
            BigMul(BigMul(BigOf(v1.num), BigOf(v1.num)), BigOf(v2.den)))

(***************************************************************************)
(* ImageProcessor: the stages of the pipeline                              *)
(***************************************************************************)
\* srcData[i] stored into a Uint8ClampedArray: an index outside the buffer
\* reads undefined, which the store converts to 0
ReadByte(srcData, i) == IF i \in DOMAIN srcData THEN srcData[i] ELSE 0

cropToROI(imageData, bounds) ==
    [ d \in 0..(bounds.width * bounds.height * CHANNELS - 1) |->
        LET p   == d \div CHANNELS
            row == p \div bounds.width
            col == p % bounds.width
            srcIdx == ((bounds.y + row) * imageData.width + (bounds.x + col)) * CHANNELS
        IN  ReadByte(imageData.data, srcIdx + (d % CHANNELS)) ]

\* mutant: the colours weighted by the pixel's opacity
toGrayscalePremultiplied(rgbaData) ==
    LET length == Cardinality(DOMAIN rgbaData) \div CHANNELS
    IN  [ i \in 0..(length - 1) |->
            Frac((299 * rgbaData[i * CHANNELS] + 587 * rgbaData[i * CHANNELS + 1]
                    + 114 * rgbaData[i * CHANNELS + 2]) * rgbaData[i * CHANNELS + 3],
                 1000 * 255) ]

toGrayscale(rgbaData) ==
    LET length == Cardinality(DOMAIN rgbaData) \div CHANNELS
    IN  [ i \in 0..(length - 1) |->
            Frac(299 * rgbaData[i * CHANNELS] + 587 * rgbaData[i * CHANNELS + 1]
                   + 114 * rgbaData[i * CHANNELS + 2], 1000) ]

FLength(data) == Cardinality(DOMAIN data)

\* The loops over a non-empty index range lo..hi-1 (minimum, maximum, sum) are
\* evaluated by halving the range; on exact numbers the result is that of the
\* code's left-to-right loop.
RECURSIVE FieldMin(_, _, _)
FieldMin(data, lo, hi) ==
    IF hi - lo = 1 THEN data[lo]
    ELSE LET mid == (lo + hi) \div 2
             l == FieldMin(data, lo, mid)
             r == FieldMin(data, mid, hi)
         IN  IF FLess(r, l) THEN r ELSE l

RECURSIVE FieldMax(_, _, _)
FieldMax(data, lo, hi) ==
    IF hi - lo = 1 THEN data[lo]
    ELSE LET mid == (lo + hi) \div 2
             l == FieldMax(data, lo, mid)
             r == FieldMax(data, mid, hi)
         IN  IF FLess(l, r) THEN r ELSE l

RECURSIVE FieldSum(_, _, _)
FieldSum(data, lo, hi) ==
    IF hi - lo = 1 THEN data[lo]
    ELSE LET mid == (lo + hi) \div 2
         IN  FAdd(FieldSum(data, lo, mid), FieldSum(data, mid, hi))

stretchContrast(grayscale) ==
    LET min == FieldMin(grayscale, 0, FLength(grayscale))
        max == FieldMax(grayscale, 0, FLength(grayscale))
        range == FSub(max, min)
    IN  IF range[1] = 0 THEN grayscale
        ELSE [ i \in DOMAIN grayscale |->
                 FMul(FDiv(FSub(grayscale[i], min), range), FInt(255)) ]

\* the two inner loops of boxBlur for the pixel (x, y), over the kernel cells
\* lo..hi-1 (cell k is ky = k \div kernelSize - radius, kx = k % kernelSize -
\* radius): <<sum, count>> of the in-bounds neighbours
RECURSIVE BlurCell(_, _, _, _, _, _, _, _)
BlurCell(data, width, height, radius, x, y, lo, hi) ==
    LET kernelSize == radius * 2 + 1
        ny == y + (lo \div kernelSize) - radius
        nx == x + (lo % kernelSize) - radius
    IN  IF hi - lo = 1
        THEN IF ny >= 0 /\ ny < height /\ nx >= 0 /\ nx < width
             THEN <<data[ny * width + nx], 1>>
             ELSE <<FInt(0), 0>>
        ELSE LET mid == (lo + hi) \div 2
                 l == BlurCell(data, width, height, radius, x, y, lo, mid)
                 r == BlurCell(data, width, height, radius, x, y, mid, hi)
             IN  <<FAdd(l[1], r[1]), l[2] + r[2]>>

\* mutant: the sum is divided by the kernel area, not by the neighbours counted
boxBlurPadded(data, width, height, radius) ==
    LET kernelSize == radius * 2 + 1
        kernelArea == kernelSize * kernelSize
    IN  [ i \in DOMAIN data |->
            LET sc == BlurCell(data, width, height, radius, i % width, i \div width,
                               0, kernelArea)
            IN  FDiv(sc[1], FInt(kernelArea)) ]

boxBlur(data, width, height, radius) ==
    LET kernelSize == radius * 2 + 1
        kernelArea == kernelSize * kernelSize
    IN  [ i \in DOMAIN data |->
            LET sc == BlurCell(data, width, height, radius, i % width, i \div width,
                               0, kernelArea)
            IN  FDiv(sc[1], FInt(sc[2])) ]

HistBin(v) ==
    LET f == FFloor(v) IN IF f < 0 THEN 0 ELSE IF f > HIST_BINS - 1 THEN HIST_BINS - 1 ELSE f

\* histogram[bin]++ for every sample: the number of samples of each bin
BuildHistogram(grayscale) ==
    LET bins == [ i \in DOMAIN grayscale |-> HistBin(grayscale[i]) ]
        used == { bins[i] : i \in DOMAIN grayscale }
    IN  [ b \in 0..(HIST_BINS - 1) |->
            IF b \in used THEN Cardinality({ i \in DOMAIN grayscale : bins[i] = b }) ELSE 0 ]

RECURSIVE HistSum(_, _, _)
HistSum(histogram, lo, hi) ==
    IF hi - lo = 1 THEN lo * histogram[lo]
    ELSE LET mid == (lo + hi) \div 2
         IN  HistSum(histogram, lo, mid) + HistSum(histogram, mid, hi)

\* the between-class variance wB * wF * (mB - mF)^2 as num^2 / den
OtsuVariance(wB, wF, sumB, sum) ==
    [num |-> Abs(sumB * wF - (sum - sumB) * wB), den |-> wB * wF]

\* one iteration of the threshold loop of otsuThreshold, for candidate t;
\* st.stop records the break
OtsuStep(histogram, total, sum, st, t) ==
    LET wB == st.wB + histogram[t]
        wF == total - wB
        sumB == st.sumB + t * histogram[t]
        var == OtsuVariance(wB, wF, sumB, sum)
    IN  IF st.stop THEN st
        ELSE IF wB = 0 THEN [st EXCEPT !.wB = wB]
        ELSE IF wF = 0 THEN [st EXCEPT !.wB = wB, !.wF = wF, !.stop = TRUE]
        ELSE IF VarGreater(var, st.maxVariance)
             THEN [wB |-> wB, wF |-> wF, sumB |-> sumB, maxVariance |-> var,
                   threshold |-> t, stop |-> FALSE]
             ELSE [st EXCEPT !.wB = wB, !.wF = wF, !.sumB = sumB]

\* the iterations lo..hi-1 of the threshold loop, in order, from state st
RECURSIVE OtsuLoop(_, _, _, _, _, _)
OtsuLoop(histogram, total, sum, st, lo, hi) ==
    IF hi - lo = 1 THEN OtsuStep(histogram, total, sum, st, lo)
    ELSE LET mid == (lo + hi) \div 2
             left == OtsuLoop(histogram, total, sum, st, lo, mid)
         IN  IF left.stop THEN left
             ELSE OtsuLoop(histogram, total, sum, left, mid, hi)

otsuThreshold(grayscale) ==
    LET histogram == BuildHistogram(grayscale)
        sum == HistSum(histogram, 0, HIST_BINS)
        st0 == [wB |-> 0, wF |-> 0, sumB |-> 0, maxVariance |-> [num |-> 0, den |-> 1],
                threshold |-> 0, stop |-> FALSE]
    IN  OtsuLoop(histogram, FLength(grayscale), sum, st0, 0, HIST_BINS).threshold

\* one scan of a row: polarity TRUE looks for light (value > threshold) first,
\* FALSE for dark (value <= threshold) first; yields <<leftEdge, rightEdge>>
RECURSIVE ScanRow(_, _, _, _, _, _, _)
ScanRow(data, rowStart, width, threshold, lightFirst, x, leftEdge) ==
    IF x >= width THEN <<leftEdge, -1>>
    ELSE LET isLight == FLess(FInt(threshold), data[rowStart + x])
             hit == IF lightFirst THEN isLight ELSE ~isLight
         IN  IF hit /\ leftEdge = -1
             THEN ScanRow(data, rowStart, width, threshold, lightFirst, x + 1, x)
             ELSE IF ~hit /\ leftEdge # -1 THEN <<leftEdge, x>>
             ELSE ScanRow(data, rowStart, width, threshold, lightFirst, x + 1, leftEdge)

\* mutant: the scan without "if no right edge found but left edge exists, use
\* width"
ScanEdgesNoWidth(data, rowStart, width, threshold, lightFirst) ==
    ScanRow(data, rowStart, width, threshold, lightFirst, 0, -1)

\* a scan followed by "if no right edge found but left edge exists, use width"
ScanEdges(data, rowStart, width, threshold, lightFirst) ==
    LET e == ScanRow(data, rowStart, width, threshold, lightFirst, 0, -1)
    IN  IF e[1] # -1 /\ e[2] = -1 THEN <<e[1], width>> ELSE e

RECURSIVE RowSum(_, _, _, _)
RowSum(data, rowStart, width, x) ==
    IF x >= width THEN FInt(0)
    ELSE FAdd(data[rowStart + x], RowSum(data, rowStart, width, x + 1))

\* mutant: the dark-first scan tried before the light-first one
RowEdgesDarkFirst(data, width, threshold, y) ==
    LET dark == ScanEdges(data, y * width, width, threshold, FALSE)
    IN  IF dark[1] = -1 THEN ScanEdges(data, y * width, width, threshold, TRUE)
        ELSE dark

RowEdges(data, width, threshold, y) ==
    LET light == ScanEdges(data, y * width, width, threshold, TRUE)
    IN  IF light[1] = -1 THEN ScanEdges(data, y * width, width, threshold, FALSE)
        ELSE light

RowAmplitude(data, width, threshold, y) ==
    LET e == RowEdges(data, width, threshold, y)
    IN  IF e[1] # -1 /\ e[2] # -1
        THEN Frac(e[2] - e[1], width)
        ELSE FDiv(FDiv(RowSum(data, y * width, width, 0), FInt(width)), FInt(255))

\* mutant: leftEdge declared outside the row loop, so that a row starts with
\* the leftEdge the row before ended with
RECURSIVE CarriedEdges(_, _, _, _)
CarriedEdges(data, width, threshold, y) ==
    LET carried == IF y = 0 THEN -1 ELSE CarriedEdges(data, width, threshold, y - 1)[1]
        e == ScanRow(data, y * width, width, threshold, TRUE, 0, carried)
        light == IF e[1] # -1 /\ e[2] = -1 THEN <<e[1], width>> ELSE e
    IN  IF light[1] = -1 THEN ScanEdges(data, y * width, width, threshold, FALSE)
        ELSE light

findBoundariesCarried(data, width, height, threshold) ==
    [ y \in 0..(height - 1) |->
        LET e == CarriedEdges(data, width, threshold, y) IN Frac(e[2] - e[1], width) ]

\* mutant: the row loop stops one row early
findBoundariesShort(data, width, height, threshold) ==
    [ y \in 0..(height - 2) |-> RowAmplitude(data, width, threshold, y) ]

findBoundaries(data, width, height, threshold) ==
    [ y \in 0..(height - 1) |-> RowAmplitude(data, width, threshold, y) ]

RECURSIVE SumSqDev(_, _, _, _)
SumSqDev(data, mean, lo, hi) ==
    IF hi - lo = 1
    THEN LET dv == FSub(data[lo], mean) IN FMul(dv, dv)
    ELSE LET mid == (lo + hi) \div 2
         IN  FAdd(SumSqDev(data, mean, lo, mid), SumSqDev(data, mean, mid, hi))

\* the square of standardDeviation(data): the variance under the Math.sqrt
variance(data) ==
    LET n == FLength(data)
        mean == FDiv(FieldSum(data, 0, n), FInt(n))
    IN  IF n = 0 THEN FInt(0)
        ELSE FDiv(SumSqDev(data, mean, 0, n), FInt(n))

\* mutant: the validator's comparison turned round
AboveEpsilon(data) == FLess(<<1, 10000>>, variance(data))

\* stdDev < 0.01, decided on the squares
BelowEpsilon(data) == FLess(variance(data), <<1, 10000>>)

\* mutant: the sign of the normalised waveform turned round
normalizeWaveformInverted(data) ==
    LET min == FieldMin(data, 0, FLength(data))
        max == FieldMax(data, 0, FLength(data))
        range == FSub(max, min)
    IN  IF range[1] = 0 THEN [ i \in DOMAIN data |-> FInt(0) ]
        ELSE [ i \in DOMAIN data |->
                 FSub(FInt(1), FMul(FDiv(FSub(data[i], min), range), FInt(2))) ]

normalizeWaveform(data) ==
    LET min == FieldMin(data, 0, FLength(data))
        max == FieldMax(data, 0, FLength(data))
        range == FSub(max, min)
    IN  IF range[1] = 0 THEN [ i \in DOMAIN data |-> FInt(0) ]
        ELSE [ i \in DOMAIN data |->
                 FSub(FMul(FDiv(FSub(data[i], min), range), FInt(2)), FInt(1)) ]

removeDCOffset(data) ==
    LET mean == FDiv(FieldSum(data, 0, FLength(data)), FInt(FLength(data)))
    IN  [ i \in DOMAIN data |-> FSub(data[i], mean) ]

RECURSIVE WindowAvg(_, _, _, _, _)
WindowAvg(data, j, last, sum, count) ==
    IF j > last THEN FDiv(sum, FInt(count))
    ELSE IF j >= 0 /\ j < FLength(data)
         THEN WindowAvg(data, j + 1, last, FAdd(sum, data[j]), count + 1)
         ELSE WindowAvg(data, j + 1, last, sum, count)

movingAverage(data, windowSize) ==
    LET halfWindow == windowSize \div 2
    IN  [ i \in DOMAIN data |-> WindowAvg(data, i - halfWindow, i + halfWindow, FInt(0), 0) ]

(***************************************************************************)
(* Inputs: pixel buffers and regions                                       *)
(***************************************************************************)
BufSize == MIN_ROI + MaxPad

\* A test film strip: rows above `split` carry a light band `a` pixels wide
\* at the left, the rows from `split` on a band `b` pixels wide; `hi` and
\* `lo` are the RGB colours of band and background; opacity is 255.
MkImage(p) ==
    [ width  |-> BufSize,
      height |-> BufSize,
      data   |-> [ d \in 0..(BufSize * BufSize * CHANNELS - 1) |->
                     LET px == d \div CHANNELS
                         x  == px % BufSize
                         y  == px \div BufSize
                         w  == IF y < p.split THEN p.a ELSE p.b
                         c  == d % CHANNELS
                     IN  IF c = 3 THEN 255
                         ELSE IF x < w THEN p.hi[c + 1] ELSE p.lo[c + 1] ] ]

Grey(v) == <<v, v, v>>

Uniform(colour) == [split |-> 0, a |-> 0, b |-> 0, lo |-> colour, hi |-> colour]

Bands(split, a, b, lo, hi) == [split |-> split, a |-> a, b |-> b, lo |-> lo, hi |-> hi]

Patterns ==
    { Uniform(Grey(0)), Uniform(Grey(128)), Uniform(Grey(255)), Uniform(<<10, 200, 30>>),
      Bands(0, 10, 10, Grey(0), Grey(255)),
      Bands(0, 10, 10, Grey(64), Grey(192)),
      Bands(3, 5, 15, Grey(0), Grey(255)),
      Bands(10, 5, 15, Grey(0), Grey(255)),
      Bands(17, 15, 5, <<0, 0, 255>>, <<255, 255, 0>>) }

Region(x, y, width, height) == [x |-> x, y |-> y, width |-> width, height |-> height]

\* regions of valid size inside the buffer
InsideRois ==
    { Region(0, 0, MIN_ROI, MIN_ROI),
      Region(MaxPad, MaxPad, MIN_ROI, MIN_ROI),
      Region(0, 0, BufSize, BufSize),
      Region(0, MaxPad, BufSize, MIN_ROI) }

\* regions of valid size that leave the buffer: to the right, below, to the left
OutsideRois ==
    { Region(MaxPad, 0, BufSize, MIN_ROI),
      Region(0, MaxPad, MIN_ROI, BufSize),
      Region(0 - 1, 0, MIN_ROI, MIN_ROI) }

SmallRois ==
    { Region(0, 0, MIN_ROI - 1, MIN_ROI),
      Region(0, 0, MIN_ROI, MIN_ROI - 1),
      Region(0, 0, 4, 4) }

Rois == InsideRois \cup OutsideRois \cup SmallRois

\* images and regions the App path is explored with
AppPatterns == { Uniform(Grey(128)), Bands(3, 5, 15, Grey(0), Grey(255)) }

\* the last is the region a resize by the top-left handle makes of the
\* initial region of a buffer-sized image
AppRois ==
    { Region(0, 0, MIN_ROI, MIN_ROI),
      Region(MaxPad + 1, 0, MIN_ROI - 1, MIN_ROI),
      Region((BufSize * 5) \div 100 + (BufSize * 12) \div 100 - MIN_SELECTION,
             (BufSize * 10) \div 100 + (BufSize * 80) \div 100 - MIN_SELECTION,
             MIN_SELECTION, MIN_SELECTION) }

\* image and regions of the repeated-call exploration
RepeatPatterns == { Bands(3, 5, 15, Grey(0), Grey(255)) }

RepeatRois ==
    { Region(0, 0, MIN_ROI, MIN_ROI), Region(MaxPad, MaxPad, MIN_ROI, MIN_ROI),
      Region(0, 0, MIN_ROI - 1, MIN_ROI) }

InBounds(imageData, bounds) ==
    /\ bounds.x >= 0
    /\ bounds.y >= 0
    /\ bounds.x + bounds.width <= imageData.width
    /\ bounds.y + bounds.height <= imageData.height

(***************************************************************************)
(* State                                                                   *)
(***************************************************************************)
VARIABLES
    \* the running ImageProcessor.extractWaveform call
    imageData, roiBounds,  \* its arguments
    caller,                \* "direct", or "app" for App's deferred callback
    pc,                    \* the statement it is at; "idle" between calls
    roiData, grayscale, enhanced, smoothed, threshold, rawWaveform,
    normalized, dcRemoved, finalWaveform,   \* its locals
    outcome,               \* what the call returned or threw
    stages,                \* the stages the call has run, in order
    reads,                 \* the number of source buffer elements it has read
    started,               \* an extraction has been requested
    \* ROISelector
    selImage, roi,
    isDragging, isResizing, activeHandle, roiStart,
    \* App
    currentScreen, extractedWaveform, loadingOverlay, errorMessage, timers,
    \* AudioEngine.currentBuffer is set
    audioBuffer,
    \* AudioEngine.createAudioBuffer: its argument, the channel data of the
    \* buffer it fills, its loop variable i and the locals of the iteration
    waveformData, channelData, sampleIndex, index0, index1, bufferPc,
    \* Camera: Camera.stream (0 for null), the MediaStreams acquired and not
    \* stopped, the getUserMedia calls made through showScreen that have not
    \* settled, the position of App.init, the number of streams acquired
    stream, liveStreams, cameraRequests, initPc, acquired,
    \* playback: App.isPlaying, loopToggle.checked, the pending end-of-playback
    \* timers (each named by the source its startPlayback started), the
    \* startPlayback calls waiting for the audio context, AudioEngine.isPlaying,
    \* AudioEngine.currentSource (0 for null), the buffer sources made
    App_isPlaying, loopToggle, playTimers, playCalls,
    AudioEngine_isPlaying, currentSource, sources,
    \* history: an earlier call and its outcome, and whether a call with other
    \* arguments was made since; and whether an extraction was requested since
    \* retake or scanAnother last returned to the capture screen
    memo, between, requested

locals == <<roiData, grayscale, enhanced, smoothed, threshold, rawWaveform,
            normalized, dcRemoved, finalWaveform>>

callVars == <<imageData, roiBounds, caller, pc, outcome, stages, reads, started>>

\* the interaction state of ROISelector
selVars == <<isDragging, isResizing, activeHandle, roiStart>>

appVars == <<selImage, roi, currentScreen, extractedWaveform, loadingOverlay,
             errorMessage, timers, audioBuffer, selVars>>

histVars == <<memo, between, requested>>

bufVars == <<waveformData, channelData, sampleIndex, index0, index1, bufferPc>>

camVars == <<stream, liveStreams, cameraRequests, initPc, acquired>>

playVars == <<App_isPlaying, loopToggle, playTimers, playCalls,
              AudioEngine_isPlaying, currentSource, sources>>

extVars == <<bufVars, camVars, playVars>>

vars == <<callVars, locals, appVars, histVars, extVars>>

Null == <<>>

NoImage == [width |-> 0, height |-> 0, data |-> Null]

NoOutcome == [kind |-> "none", message |-> "", samples |-> Null]

Waveform(samples) == [kind |-> "waveform", message |-> "", samples |-> samples]

Thrown(message) == [kind |-> "error", message |-> message, samples |-> Null]

NoMemo == [set |-> FALSE, imageData |-> NoImage, roiBounds |-> Region(0, 0, 0, 0),
           outcome |-> NoOutcome]

InitBuffer ==
    /\ waveformData = Null /\ channelData = Null
    /\ sampleIndex = 0 /\ index0 = -1 /\ index1 = -1
    /\ bufferPc = "idle"

\* no camera stream, no request for one
InitCameraModule ==
    /\ stream = 0 /\ liveStreams = {} /\ cameraRequests = 0 /\ acquired = 0

InitPlayback ==
    /\ App_isPlaying = FALSE /\ loopToggle = FALSE
    /\ playTimers = {} /\ playCalls = <<>>
    /\ AudioEngine_isPlaying = FALSE /\ currentSource = 0 /\ sources = <<>>

InitExt == InitBuffer /\ InitCameraModule /\ InitPlayback /\ requested = FALSE

\* the objects as the scripts define them
Constructed ==
    /\ InitExt
    /\ imageData = NoImage
    /\ roiBounds = Region(0, 0, 0, 0)
    /\ caller = "none"
    /\ pc = "idle"
    /\ roiData = Null /\ grayscale = Null /\ enhanced = Null /\ smoothed = Null
    /\ threshold = -1
    /\ rawWaveform = Null /\ normalized = Null /\ dcRemoved = Null
    /\ finalWaveform = Null
    /\ outcome = NoOutcome
    /\ stages = <<>>
    /\ reads = 0
    /\ started = FALSE
    /\ selImage = NoImage
    /\ roi = Region(0, 0, 50, 200)
    /\ isDragging = FALSE /\ isResizing = FALSE /\ activeHandle = "none"
    /\ roiStart = Region(0, 0, 0, 0)
    /\ currentScreen = "capture"
    /\ extractedWaveform = Null
    /\ loadingOverlay = FALSE
    /\ timers = <<>>
    /\ audioBuffer = FALSE
    /\ memo = NoMemo
    /\ between = FALSE

\* App.init has run and its requests for a camera were refused
Init ==
    /\ Constructed
    /\ initPc = "done"
    /\ errorMessage = "camera unavailable"

(***************************************************************************)
(* ImageProcessor.extractWaveform, statement by statement.  JavaScript     *)
(* runs a call to completion: while pc # "idle" no other handler runs.     *)
(***************************************************************************)
\* entry into extractWaveform(img, bounds)
Begin(img, bounds, who) ==
    /\ imageData' = img
    /\ roiBounds' = bounds
    /\ caller' = who
    /\ pc' = "check"
    /\ outcome' = NoOutcome
    /\ stages' = <<>>
    /\ reads' = 0
    /\ started' = TRUE
    /\ UNCHANGED locals

\* mutants of the size check: "&&" for "||", and the comparison turned round
RoiTooSmallBoth(bounds) == bounds.width < MIN_ROI /\ bounds.height < MIN_ROI

RoiTooSmallInverted(bounds) == bounds.width > MIN_ROI \/ bounds.height > MIN_ROI

RoiTooSmall(bounds) == bounds.width < MIN_ROI \/ bounds.height < MIN_ROI

Step(from, name, to) ==
    /\ pc = from
    /\ pc' = to
    /\ stages' = Append(stages, name)
    /\ UNCHANGED <<imageData, roiBounds, caller, outcome, started>>

CheckBounds ==
    /\ pc = "check"
    /\ IF RoiTooSmall(roiBounds)
       THEN pc' = "throw" /\ outcome' = Thrown("ROI_TOO_SMALL")
       ELSE pc' = "crop" /\ outcome' = outcome
    /\ UNCHANGED <<imageData, roiBounds, caller, stages, reads, started>>
    /\ UNCHANGED <<locals, appVars, histVars, extVars>>

\* mutant: the cropped pixels are written back over the start of the source
\* buffer, as if croppedData aliased srcData
CropInPlace ==
    /\ pc = "crop"
    /\ pc' = "grayscale"
    /\ stages' = Append(stages, "crop")
    /\ roiData' = cropToROI(imageData, roiBounds)
    /\ reads' = reads + roiBounds.width * roiBounds.height * CHANNELS
    /\ imageData' = [imageData EXCEPT !.data =
                        [ d \in DOMAIN imageData.data |->
                            IF d \in DOMAIN roiData' THEN roiData'[d] ELSE imageData.data[d] ]]
    /\ UNCHANGED <<roiBounds, caller, outcome, started>>
    /\ UNCHANGED <<grayscale, enhanced, smoothed, threshold, rawWaveform,
                   normalized, dcRemoved, finalWaveform>>
    /\ UNCHANGED <<appVars, histVars, extVars>>

Crop ==
    /\ Step("crop", "crop", "grayscale")
    /\ roiData' = cropToROI(imageData, roiBounds)
    /\ reads' = reads + roiBounds.width * roiBounds.height * CHANNELS
    /\ UNCHANGED <<grayscale, enhanced, smoothed, threshold, rawWaveform,
                   normalized, dcRemoved, finalWaveform>>
    /\ UNCHANGED <<appVars, histVars, extVars>>

Grayscale ==
    /\ Step("grayscale", "grayscale", "stretch")
    /\ grayscale' = toGrayscale(roiData)
    /\ UNCHANGED <<roiData, enhanced, smoothed, threshold, rawWaveform,
                   normalized, dcRemoved, finalWaveform, reads>>
    /\ UNCHANGED <<appVars, histVars, extVars>>

Stretch ==
    /\ Step("stretch", "stretch", "blur")
    /\ enhanced' = stretchContrast(grayscale)
    /\ UNCHANGED <<roiData, grayscale, smoothed, threshold, rawWaveform,
                   normalized, dcRemoved, finalWaveform, reads>>
    /\ UNCHANGED <<appVars, histVars, extVars>>

Blur ==
    /\ Step("blur", "blur", "threshold")
    /\ smoothed' = boxBlur(enhanced, roiBounds.width, roiBounds.height, BLUR_RADIUS)
    /\ UNCHANGED <<roiData, grayscale, enhanced, threshold, rawWaveform,
                   normalized, dcRemoved, finalWaveform, reads>>
    /\ UNCHANGED <<appVars, histVars, extVars>>

\* mutant: the threshold is kept across calls and a later call only raises it
ThresholdKept ==
    /\ Step("threshold", "threshold", "scan")
    /\ threshold' = LET t == otsuThreshold(smoothed)
                    IN  IF t > threshold THEN t ELSE threshold
    /\ UNCHANGED <<roiData, grayscale, enhanced, smoothed, rawWaveform,
                   normalized, dcRemoved, finalWaveform, reads>>
    /\ UNCHANGED <<appVars, histVars, extVars>>

Threshold ==
    /\ Step("threshold", "threshold", "scan")
    /\ threshold' = otsuThreshold(smoothed)
    /\ UNCHANGED <<roiData, grayscale, enhanced, smoothed, rawWaveform,
                   normalized, dcRemoved, finalWaveform, reads>>
    /\ UNCHANGED <<appVars, histVars, extVars>>

Scan ==
    /\ Step("scan", "scan", "validate")
    /\ rawWaveform' = findBoundaries(smoothed, roiBounds.width, roiBounds.height, threshold)
    /\ UNCHANGED <<roiData, grayscale, enhanced, smoothed, threshold,
                   normalized, dcRemoved, finalWaveform, reads>>
    /\ UNCHANGED <<appVars, histVars, extVars>>

\* mutant: the validator placed after normalisation, checking the normalised
\* waveform
ValidateLate ==
    /\ pc = "validate"
    /\ stages' = Append(Append(stages, "normalize"), "validate")
    /\ normalized' = normalizeWaveform(rawWaveform)
    /\ IF BelowEpsilon(normalized')
       THEN pc' = "throw" /\ outcome' = Thrown("NO_VARIATION")
       ELSE pc' = "dc" /\ outcome' = outcome
    /\ UNCHANGED <<imageData, roiBounds, caller, reads, started>>
    /\ UNCHANGED <<roiData, grayscale, enhanced, smoothed, threshold, rawWaveform,
                   dcRemoved, finalWaveform>>
    /\ UNCHANGED <<appVars, histVars, extVars>>

Validate ==
    /\ pc = "validate"
    /\ stages' = Append(stages, "validate")
    /\ IF BelowEpsilon(rawWaveform)
       THEN pc' = "throw" /\ outcome' = Thrown("NO_VARIATION")
       ELSE pc' = "normalize" /\ outcome' = outcome
    /\ UNCHANGED <<imageData, roiBounds, caller, reads, started>>
    /\ UNCHANGED <<locals, appVars, histVars, extVars>>

Normalize ==
    /\ Step("normalize", "normalize", "dc")
    /\ normalized' = normalizeWaveform(rawWaveform)
    /\ UNCHANGED <<roiData, grayscale, enhanced, smoothed, threshold, rawWaveform,
                   dcRemoved, finalWaveform, reads>>
    /\ UNCHANGED <<appVars, histVars, extVars>>

RemoveDC ==
    /\ Step("dc", "dc", "smooth")
    /\ dcRemoved' = removeDCOffset(normalized)
    /\ UNCHANGED <<roiData, grayscale, enhanced, smoothed, threshold, rawWaveform,
                   normalized, finalWaveform, reads>>
    /\ UNCHANGED <<appVars, histVars, extVars>>

\* movingAverage, then "return new Float32Array(finalWaveform)"
Smooth ==
    /\ pc = "smooth"
    /\ stages' = Append(stages, "smooth")
    /\ finalWaveform' = movingAverage(dcRemoved, SMOOTH_WINDOW)
    /\ outcome' = Waveform(finalWaveform')
    /\ pc' = "return"
    /\ UNCHANGED <<imageData, roiBounds, caller, reads, started>>
    /\ UNCHANGED <<roiData, grayscale, enhanced, smoothed, threshold, rawWaveform,
                   normalized, dcRemoved>>
    /\ UNCHANGED <<appVars, histVars, extVars>>

Pipeline ==
    \/ CheckBounds \/ Crop \/ Grayscale \/ Stretch \/ Blur \/ Threshold \/ Scan
    \/ Validate \/ Normalize \/ RemoveDC \/ Smooth

Ended == pc \in {"return", "throw"}

\* a caller other than App: the call is made with any buffer and region
DirectCall(p, bounds) ==
    /\ pc = "idle"
    /\ ~started
    /\ currentScreen = "capture"
    /\ Begin(MkImage(p), bounds, "direct")
    /\ UNCHANGED <<appVars, histVars, extVars>>

DirectDone ==
    /\ Ended
    /\ caller = "direct"
    /\ pc' = "idle"
    /\ UNCHANGED <<imageData, roiBounds, caller, outcome, stages, reads, started>>
    /\ UNCHANGED <<locals, appVars, histVars, extVars>>

(***************************************************************************)
(* Camera and AudioEngine: the parts of their methods App's handlers run   *)
(***************************************************************************)
\* Camera.stopCamera (the torch is not modelled)
stopCamera ==
    /\ liveStreams' = liveStreams \ {stream}
    /\ stream' = 0

\* App.initializeCamera up to its await: Camera.initCamera has called
\* getUserMedia
initializeCamera ==
    /\ cameraRequests < MaxRequests
    /\ cameraRequests' = cameraRequests + 1

\* App.showScreen (the canvas of the playback screen is not modelled)
showScreen(screenName) ==
    /\ currentScreen' = screenName
    /\ IF screenName = "capture" THEN initializeCamera ELSE UNCHANGED cameraRequests

\* AudioEngine.stop: the source stopped fires its ended event later
AudioEngineStop ==
    /\ IF currentSource # 0 /\ sources[currentSource].state = "playing"
       THEN sources' = [sources EXCEPT ![currentSource].state = "stopped",
                                       ![currentSource].ended = "queued"]
       ELSE UNCHANGED sources
    /\ currentSource' = 0
    /\ AudioEngine_isPlaying' = FALSE

\* App.stopPlayback (the play button, the playhead animation and the
\* projector sound are not modelled)
stopPlayback ==
    /\ AudioEngineStop
    /\ App_isPlaying' = FALSE

(***************************************************************************)
(* ROISelector and App: capture, region selection, extraction request      *)
(***************************************************************************)
\* the region initROISelector sets for an image of the given size
DefaultRoi(image) ==
    Region((image.width * 5) \div 100, (image.height * 10) \div 100,
           (image.width * 12) \div 100, (image.height * 80) \div 100)

\* App.capturePhoto / App.handleFileUpload with an image obtained: the ROI
\* selector is initialised with it and the process screen is shown
Capture(p) ==
    /\ pc = "idle"
    /\ currentScreen = "capture"
    /\ stopCamera
    /\ selImage' = MkImage(p)
    /\ roi' = DefaultRoi(selImage')
    /\ showScreen("process")
    /\ UNCHANGED <<extractedWaveform, loadingOverlay, errorMessage, timers, audioBuffer>>
    /\ UNCHANGED <<callVars, locals, histVars, bufVars, playVars>>
    /\ UNCHANGED <<initPc, acquired>>
    /\ UNCHANGED selVars

\* ROISelector.reset
reset ==
    /\ selImage' = NoImage
    /\ isDragging' = FALSE
    /\ isResizing' = FALSE
    /\ activeHandle' = "none"
    /\ UNCHANGED roiStart

\* the first capture of a session
CapturePhoto(p) == ~started /\ timers = <<>> /\ Capture(p)

\* drags and resizes of the selector that leave it at region r, taken as one
\* step
AdjustROI(r) ==
    /\ pc = "idle"
    /\ currentScreen = "process"
    /\ roi # r
    /\ roi' = r
    /\ UNCHANGED <<selImage, currentScreen, extractedWaveform, loadingOverlay,
                   errorMessage, timers, audioBuffer>>
    /\ UNCHANGED <<callVars, locals, histVars, extVars>>
    /\ UNCHANGED selVars

\* App.extractWaveform, up to the setTimeout: the click on the extract button
ExtractClick ==
    /\ pc = "idle"
    /\ currentScreen = "process"
    /\ Len(timers) < MaxTimers
    /\ IF roi.width < APP_MIN_ROI \/ roi.height < APP_MIN_ROI
       THEN /\ errorMessage' = "select a larger region"
            /\ UNCHANGED <<loadingOverlay, timers, requested>>
       ELSE /\ loadingOverlay' = TRUE
            /\ timers' = Append(timers, [imageData |-> selImage, bounds |-> roi])
            /\ requested' = TRUE
            /\ UNCHANGED errorMessage
    /\ UNCHANGED <<selImage, roi, currentScreen, extractedWaveform, audioBuffer>>
    /\ UNCHANGED <<callVars, locals, memo, between, extVars>>
    /\ UNCHANGED selVars

\* the first extraction request of a session
AppExtractWaveform == ~started /\ timers = <<>> /\ ExtractClick

\* App.retake: back from the process screen to the capture screen
retake ==
    /\ pc = "idle"
    /\ currentScreen = "process"
    /\ reset
    /\ showScreen("capture")
    /\ requested' = FALSE
    /\ UNCHANGED <<roi, extractedWaveform, loadingOverlay, errorMessage, timers, audioBuffer>>
    /\ UNCHANGED <<callVars, locals, memo, between, bufVars, playVars>>
    /\ UNCHANGED <<stream, liveStreams, initPc, acquired>>

\* App.scanAnother: back from the playback screen to the capture screen; the
\* waveform is dropped, AudioEngine.currentBuffer is not
scanAnother ==
    /\ pc = "idle"
    /\ currentScreen = "playback"
    /\ stopPlayback
    /\ reset
    /\ extractedWaveform' = Null
    /\ loopToggle' = FALSE
    /\ showScreen("capture")
    /\ requested' = FALSE
    /\ UNCHANGED <<roi, loadingOverlay, errorMessage, timers, audioBuffer>>
    /\ UNCHANGED <<callVars, locals, memo, between, bufVars>>
    /\ UNCHANGED <<stream, liveStreams, initPc, acquired, playTimers, playCalls>>

\* the deferred callback starts: it calls ImageProcessor.extractWaveform
TimerFire ==
    /\ pc = "idle"
    /\ timers # <<>>
    /\ Begin(Head(timers).imageData, Head(timers).bounds, "app")
    /\ timers' = Tail(timers)
    /\ UNCHANGED <<selImage, roi, currentScreen, extractedWaveform, loadingOverlay,
                   errorMessage, audioBuffer>>
    /\ UNCHANGED <<histVars, extVars>>
    /\ UNCHANGED selVars

\* the callback after the call returned: audio buffer, playback screen
AppCallbackReturn ==
    /\ pc = "return"
    /\ caller = "app"
    /\ pc' = "idle"
    /\ extractedWaveform' = outcome.samples
    /\ audioBuffer' = TRUE
    /\ loadingOverlay' = FALSE
    /\ showScreen("playback")
    /\ UNCHANGED <<selImage, roi, errorMessage, timers>>
    /\ UNCHANGED <<imageData, roiBounds, caller, outcome, stages, reads, started>>
    /\ UNCHANGED <<locals, histVars, bufVars, playVars>>
    /\ UNCHANGED <<stream, liveStreams, initPc, acquired>>
    /\ UNCHANGED selVars

\* mutant: the screen change placed after the try block, so that it runs on a
\* failure too
AppCallbackCatchProceeds ==
    /\ pc = "throw"
    /\ caller = "app"
    /\ pc' = "idle"
    /\ loadingOverlay' = FALSE
    /\ errorMessage' = "could not detect audio"
    /\ currentScreen' = "playback"
    /\ UNCHANGED <<selImage, roi, extractedWaveform, timers, audioBuffer>>
    /\ UNCHANGED <<imageData, roiBounds, caller, outcome, stages, reads, started>>
    /\ UNCHANGED <<locals, histVars, extVars>>
    /\ UNCHANGED selVars

\* the callback's catch block (showError; the banner's auto-hide timer is not
\* modelled)
AppCallbackCatch ==
    /\ pc = "throw"
    /\ caller = "app"
    /\ pc' = "idle"
    /\ loadingOverlay' = FALSE
    /\ errorMessage' = IF outcome.message = "ROI_TOO_SMALL" THEN "select a larger region"
                       ELSE IF outcome.message = "NO_VARIATION" THEN "region appears blank"
                       ELSE "could not detect audio"
    /\ UNCHANGED <<selImage, roi, currentScreen, extractedWaveform, timers, audioBuffer>>
    /\ UNCHANGED <<imageData, roiBounds, caller, outcome, stages, reads, started>>
    /\ UNCHANGED <<locals, histVars, extVars>>
    /\ UNCHANGED selVars

(***************************************************************************)
(* App.init and the camera.  A getUserMedia call settles in a later task:  *)
(* the rest of Camera.initCamera, of App.initializeCamera and, for the     *)
(* call App.init awaits, of App.init then run without interruption.        *)
(***************************************************************************)
\* App.init up to "await this.initializeCamera()"
init ==
    /\ pc = "idle"
    /\ initPc = "start"
    /\ initPc' = "camera"
    /\ UNCHANGED <<stream, liveStreams, cameraRequests, acquired>>
    /\ UNCHANGED <<callVars, locals, histVars, bufVars, playVars>>
    /\ UNCHANGED <<selImage, roi, currentScreen, extractedWaveform, loadingOverlay,
                   errorMessage, timers, audioBuffer, selVars>>

\* getUserMedia resolves: this.stream = await getUserMedia(constraints)
streamGranted ==
    /\ acquired < MaxStreams
    /\ acquired' = acquired + 1
    /\ stream' = acquired + 1
    /\ liveStreams' = liveStreams \cup {acquired + 1}
    /\ UNCHANGED errorMessage

\* getUserMedia rejects: initCamera returns the error, initializeCamera
\* shows it
streamRefused ==
    /\ errorMessage' = "camera unavailable"
    /\ UNCHANGED <<stream, liveStreams, acquired>>

\* the call App.init awaits settles, and App.init goes on to
\* this.showScreen('capture')
initCameraSettles(granted) ==
    /\ pc = "idle"
    /\ initPc = "camera"
    /\ IF granted THEN streamGranted ELSE streamRefused
    /\ showScreen("capture")
    /\ initPc' = "done"
    /\ UNCHANGED <<callVars, locals, histVars, bufVars, playVars>>
    /\ UNCHANGED <<selImage, roi, extractedWaveform, loadingOverlay,
                   timers, audioBuffer, selVars>>

\* a call made through showScreen('capture') settles
cameraSettles(granted) ==
    /\ pc = "idle"
    /\ cameraRequests > 0
    /\ cameraRequests' = cameraRequests - 1
    /\ IF granted THEN streamGranted ELSE streamRefused
    /\ UNCHANGED initPc
    /\ UNCHANGED <<callVars, locals, histVars, bufVars, playVars>>
    /\ UNCHANGED <<selImage, roi, currentScreen, extractedWaveform, loadingOverlay,
                   timers, audioBuffer, selVars>>

cameraGranted == cameraSettles(TRUE)

cameraRefused == cameraSettles(FALSE)

(***************************************************************************)
(* Playback.  startPlayback awaits AudioEngine.play, which awaits the      *)
(* audio context: the rest of both runs in a later task, without           *)
(* interruption.  A buffer source is [state, loop, ended]: ended is        *)
(* "queued" from the moment the source stops playing until its onended     *)
(* handler has run.  The playback rate is not modelled.                    *)
(***************************************************************************)
\* the App state no playback step changes
sessionVars == <<selImage, roi, currentScreen, extractedWaveform, loadingOverlay,
                 errorMessage, timers, audioBuffer, selVars>>

\* App.togglePlayback: stopPlayback, or startPlayback up to its await
togglePlayback ==
    /\ pc = "idle"
    /\ currentScreen = "playback"
    /\ IF App_isPlaying
       THEN /\ stopPlayback
            /\ UNCHANGED playCalls
       ELSE /\ Len(playCalls) < MaxCalls
            /\ playCalls' = Append(playCalls, [loop |-> loopToggle])
            /\ UNCHANGED <<App_isPlaying, AudioEngine_isPlaying, currentSource, sources>>
    /\ UNCHANGED <<loopToggle, playTimers>>
    /\ UNCHANGED <<callVars, locals, histVars, bufVars, camVars, sessionVars>>

\* the rest of AudioEngine.play (stop, a new source, start) and of
\* App.startPlayback (isPlaying, the end-of-playback timer unless looping)
playResumes ==
    /\ pc = "idle"
    /\ playCalls # <<>>
    /\ Len(sources) < MaxSources
    /\ LET call    == Head(playCalls)
           stopped == IF currentSource # 0 /\ sources[currentSource].state = "playing"
                      THEN [sources EXCEPT ![currentSource].state = "stopped",
                                           ![currentSource].ended = "queued"]
                      ELSE sources
           source  == Len(sources) + 1
       IN  /\ sources' = Append(stopped, [state |-> "playing", loop |-> call.loop,
                                          ended |-> "armed"])
           /\ currentSource' = source
           /\ AudioEngine_isPlaying' = TRUE
           /\ App_isPlaying' = TRUE
           /\ playTimers' = IF call.loop THEN playTimers ELSE playTimers \cup {source}
    /\ playCalls' = Tail(playCalls)
    /\ UNCHANGED loopToggle
    /\ UNCHANGED <<callVars, locals, histVars, bufVars, camVars, sessionVars>>

\* a source that does not loop reaches the end of its buffer
sourceEnds(source) ==
    /\ pc = "idle"
    /\ source \in DOMAIN sources
    /\ sources[source].state = "playing"
    /\ ~sources[source].loop
    /\ sources' = [sources EXCEPT ![source].state = "ended", ![source].ended = "queued"]
    /\ UNCHANGED <<App_isPlaying, loopToggle, playTimers, playCalls,
                   AudioEngine_isPlaying, currentSource>>
    /\ UNCHANGED <<callVars, locals, histVars, bufVars, camVars, sessionVars>>

\* source.onended = () => { if (!source.loop) this.isPlaying = false }
onended(source) ==
    /\ pc = "idle"
    /\ source \in DOMAIN sources
    /\ sources[source].ended = "queued"
    /\ sources' = [sources EXCEPT ![source].ended = "done"]
    /\ AudioEngine_isPlaying' = IF sources[source].loop THEN AudioEngine_isPlaying ELSE FALSE
    /\ UNCHANGED <<App_isPlaying, loopToggle, playTimers, playCalls, currentSource>>
    /\ UNCHANGED <<callVars, locals, histVars, bufVars, camVars, sessionVars>>

\* the timer of startPlayback: if (this.isPlaying && !loopToggle.checked)
\* this.stopPlayback()
playTimerFires(source) ==
    /\ pc = "idle"
    /\ source \in playTimers
    /\ playTimers' = playTimers \ {source}
    /\ IF App_isPlaying /\ ~loopToggle
       THEN stopPlayback
       ELSE UNCHANGED <<App_isPlaying, AudioEngine_isPlaying, currentSource, sources>>
    /\ UNCHANGED <<loopToggle, playCalls>>
    /\ UNCHANGED <<callVars, locals, histVars, bufVars, camVars, sessionVars>>

\* App.updateLoop for a change of the loop toggle: AudioEngine.setLoop
updateLoop ==
    /\ pc = "idle"
    /\ currentScreen = "playback"
    /\ loopToggle' = ~loopToggle
    /\ sources' = IF currentSource # 0
                  THEN [sources EXCEPT ![currentSource].loop = ~loopToggle]
                  ELSE sources
    /\ UNCHANGED <<App_isPlaying, playTimers, playCalls, AudioEngine_isPlaying,
                   currentSource>>
    /\ UNCHANGED <<callVars, locals, histVars, bufVars, camVars, sessionVars>>

\* the visibilitychange listener, for a page that becomes hidden while
\* App.isPlaying
pageHidden ==
    /\ pc = "idle"
    /\ App_isPlaying
    /\ stopPlayback
    /\ UNCHANGED <<loopToggle, playTimers, playCalls>>
    /\ UNCHANGED <<callVars, locals, histVars, bufVars, camVars, sessionVars>>

(***************************************************************************)
(* ROISelector: the pointer handlers.  Pointer displacements are taken in  *)
(* whole image pixels, so that Math.floor in getROIBounds changes nothing. *)
(***************************************************************************)
clamp(value, min, max) ==
    LET upper == IF value > min THEN value ELSE min
    IN  IF upper < max THEN upper ELSE max

\* initROISelector on an image of the given size, its pixels left out
initROISelector(width, height) ==
    /\ pc = "idle"
    /\ selImage = NoImage
    /\ selImage' = [width |-> width, height |-> height, data |-> Null]
    /\ roi' = DefaultRoi(selImage')
    /\ UNCHANGED <<currentScreen, extractedWaveform, loadingOverlay, errorMessage,
                   timers, audioBuffer, selVars>>
    /\ UNCHANGED <<callVars, locals, histVars, extVars>>

startDrag ==
    /\ pc = "idle"
    /\ selImage # NoImage
    /\ isDragging' = TRUE
    /\ isResizing' = FALSE
    /\ roiStart' = roi
    /\ UNCHANGED <<selImage, roi, activeHandle, currentScreen, extractedWaveform,
                   loadingOverlay, errorMessage, timers, audioBuffer>>
    /\ UNCHANGED <<callVars, locals, histVars, extVars>>

Handles == { "tl", "tr", "bl", "br" }

startResize(handle) ==
    /\ pc = "idle"
    /\ selImage # NoImage
    /\ isResizing' = TRUE
    /\ isDragging' = FALSE
    /\ activeHandle' = handle
    /\ roiStart' = roi
    /\ UNCHANGED <<selImage, roi, currentScreen, extractedWaveform,
                   loadingOverlay, errorMessage, timers, audioBuffer>>
    /\ UNCHANGED <<callVars, locals, histVars, extVars>>

\* the region handleMove leaves for a pointer displaced by (dx, dy) since the
\* interaction started
MovedRoi(dx, dy) ==
    LET minSize == MIN_SELECTION
        canvas  == selImage
        left    == clamp(roiStart.x + dx, 0, roiStart.x + roiStart.width - minSize)
        top     == clamp(roiStart.y + dy, 0, roiStart.y + roiStart.height - minSize)
        wide    == clamp(roiStart.width + dx, minSize, canvas.width - roiStart.x)
        high    == clamp(roiStart.height + dy, minSize, canvas.height - roiStart.y)
    IN  IF isDragging
        THEN [roi EXCEPT !.x = clamp(roiStart.x + dx, 0, canvas.width - roi.width),
                         !.y = clamp(roiStart.y + dy, 0, canvas.height - roi.height)]
        ELSE IF activeHandle = "tl"
        THEN Region(left, top, roiStart.width - (left - roiStart.x),
                    roiStart.height - (top - roiStart.y))
        ELSE IF activeHandle = "tr"
        THEN Region(roi.x, top, wide, roiStart.height - (top - roiStart.y))
        ELSE IF activeHandle = "bl"
        THEN Region(left, roi.y, roiStart.width - (left - roiStart.x), high)
        ELSE IF activeHandle = "br"
        THEN Region(roi.x, roi.y, wide, high)
        ELSE roi

handleMove(dx, dy) ==
    /\ pc = "idle"
    /\ isDragging \/ isResizing
    /\ roi' = MovedRoi(dx, dy)
    /\ UNCHANGED <<selImage, currentScreen, extractedWaveform, loadingOverlay,
                   errorMessage, timers, audioBuffer, selVars>>
    /\ UNCHANGED <<callVars, locals, histVars, extVars>>

endInteraction ==
    /\ pc = "idle"
    /\ isDragging \/ isResizing \/ activeHandle # "none"
    /\ isDragging' = FALSE
    /\ isResizing' = FALSE
    /\ activeHandle' = "none"
    /\ UNCHANGED <<selImage, roi, roiStart, currentScreen, extractedWaveform,
                   loadingOverlay, errorMessage, timers, audioBuffer>>
    /\ UNCHANGED <<callVars, locals, histVars, extVars>>

getROIBounds == Region(roi.x, roi.y, roi.width, roi.height)

\* image sizes and pointer displacements of the selector's exploration
SelectorSizes == { <<BufSize, BufSize>>, <<100, 60>> }

Displacements == { 0 - Reach, 0, Reach }

NextSelector ==
    \/ \E size \in SelectorSizes : initROISelector(size[1], size[2])
    \/ startDrag
    \/ \E handle \in Handles : startResize(handle)
    \/ \E dx \in Displacements, dy \in Displacements : handleMove(dx, dy)
    \/ endInteraction

SpecSelector == Init /\ [][NextSelector]_vars

(***************************************************************************)
(* IEEE 754 arithmetic, for AudioEngine.  The resampling index is the      *)
(* floor of a rounded quotient times a length, so rounding decides it: a   *)
(* Number is modelled here as the exact binary fraction it is,             *)
(*   [neg, man, exp]  standing for  (-1)^neg * man / 2^exp,                *)
(* man a natural number in the digits of BigBase (least significant        *)
(* first, no leading zero digit) that is odd unless exp = 0.  Every        *)
(* operation computes the exact result and rounds it to nearest, ties to   *)
(* even, at 53 bits (Number) or 24 bits (an element of a Float32Array).    *)
(* The values stay far from the overflow and underflow thresholds.         *)
(***************************************************************************)
DoubleBits == 53

SingleBits == 24

RECURSIVE BigTrim(_)
BigTrim(x) ==
    IF Len(x) = 0 \/ x[Len(x)] # 0 THEN x ELSE BigTrim(SubSeq(x, 1, Len(x) - 1))

BigNat(n) == BigTrim(BigOf(n))

BigToNat(x) == BigDigit(x, 1) + BigBase * BigDigit(x, 2)

BigOdd(x) == BigDigit(x, 1) % 2 = 1

BigAdd(x, y) ==
    LET n == IF Len(x) > Len(y) THEN Len(x) ELSE Len(y)
    IN  BigTrim(BigCarry([k \in 1..n |-> BigDigit(x, k) + BigDigit(y, k)], 1, 0, <<>>))

\* x - y for x >= y
RECURSIVE BigBorrow(_, _, _, _, _)
BigBorrow(x, y, k, b, acc) ==
    IF k > Len(x) THEN acc
    ELSE LET v == x[k] - BigDigit(y, k) - b
         IN  IF v < 0 THEN BigBorrow(x, y, k + 1, 1, Append(acc, v + BigBase))
             ELSE BigBorrow(x, y, k + 1, 0, Append(acc, v))

BigSub(x, y) == BigTrim(BigBorrow(x, y, 1, 0, <<>>))

\* <<quotient, remainder>> of x by a divisor of at most 2^13
RECURSIVE BigDivFrom(_, _, _, _, _)
BigDivFrom(x, d, k, r, acc) ==
    IF k = 0 THEN <<BigTrim(acc), r>>
    ELSE LET v == r * BigBase + x[k]
         IN  BigDivFrom(x, d, k - 1, v % d, <<v \div d>> \o acc)

BigDivSmall(x, d) == BigDivFrom(x, d, Len(x), 0, <<>>)

ChunkBits == 13

RECURSIVE BigShiftLeft(_, _)
BigShiftLeft(x, n) ==
    IF n = 0 THEN BigTrim(x)
    ELSE LET s == IF n < ChunkBits THEN n ELSE ChunkBits
         IN  BigShiftLeft(BigTrim(BigMul(x, BigNat(2 ^ s))), n - s)

\* <<x \div 2^n, whether a dropped bit was 1>>
RECURSIVE BigShiftRight(_, _)
BigShiftRight(x, n) ==
    IF n = 0 THEN <<x, FALSE>>
    ELSE LET s    == IF n < ChunkBits THEN n ELSE ChunkBits
             qr   == BigDivSmall(x, 2 ^ s)
             rest == BigShiftRight(qr[1], n - s)
         IN  <<rest[1], rest[2] \/ qr[2] # 0>>

\* the number of bits of x
RECURSIVE BigBits(_)
BigBits(x) ==
    IF Len(x) = 0 THEN 0
    ELSE IF Len(x) = 1
    THEN CHOOSE n \in 1..14 : 2 ^ (n - 1) <= x[1] /\ x[1] < 2 ^ n
    ELSE ChunkBits + BigBits(BigDivSmall(x, 2 ^ ChunkBits)[1])

NaN == [neg |-> FALSE, man |-> <<>>, exp |-> -1]

IsNaN(a) == a.exp < 0

\* the canonical form of (-1)^neg * man / 2^exp
RECURSIVE DyNorm(_, _, _)
DyNorm(neg, man, exp) ==
    IF Len(man) = 0 THEN [neg |-> FALSE, man |-> <<>>, exp |-> 0]
    ELSE IF exp >= 4 /\ man[1] % 16 = 0 THEN DyNorm(neg, BigDivSmall(man, 16)[1], exp - 4)
    ELSE IF exp >= 1 /\ man[1] % 2 = 0 THEN DyNorm(neg, BigDivSmall(man, 2)[1], exp - 1)
    ELSE [neg |-> neg, man |-> man, exp |-> exp]

\* (-1)^neg * (man / 2^exp, and a little more if sticky) rounded to p bits
DyRound(p, neg, man, exp, sticky) ==
    LET n == BigBits(man)
    IN  IF n <= p THEN DyNorm(neg, man, exp)
        ELSE LET s       == n - p
                 q1      == BigShiftRight(man, s - 1)
                 q2      == BigDivSmall(q1[1], 2)[1]
                 halfway == BigOdd(q1[1])
                 up      == halfway /\ (q1[2] \/ sticky \/ BigOdd(q2))
                 m       == IF up THEN BigAdd(q2, <<1>>) ELSE q2
             IN  IF s <= exp THEN DyNorm(neg, m, exp - s)
                 ELSE DyNorm(neg, BigShiftLeft(m, s - exp), 0)

DyOfInt(n) == DyNorm(n < 0, BigNat(IF n < 0 THEN 0 - n ELSE n), 0)

\* a / 2^e for a whole a
DyOf(a, e) == DyNorm(a < 0, BigNat(IF a < 0 THEN 0 - a ELSE a), e)

\* the exact sum a + b as <<neg, man, exp>>
DySum(a, b) ==
    LET e  == IF a.exp > b.exp THEN a.exp ELSE b.exp
        ma == BigShiftLeft(a.man, e - a.exp)
        mb == BigShiftLeft(b.man, e - b.exp)
    IN  IF a.neg = b.neg THEN <<a.neg, BigAdd(ma, mb), e>>
        ELSE IF BigLess(ma, mb) THEN <<b.neg, BigSub(mb, ma), e>>
        ELSE <<a.neg, BigSub(ma, mb), e>>

DyNeg(a) == IF Len(a.man) = 0 THEN a ELSE [a EXCEPT !.neg = ~a.neg]

DyLess(a, b) ==
    LET d == DySum(a, DyNeg(b))
    IN  d[1] /\ Len(d[2]) > 0

DyLeq(a, b) == ~DyLess(b, a)

\* the Number operations
NumAdd(a, b) ==
    IF IsNaN(a) \/ IsNaN(b) THEN NaN
    ELSE LET s == DySum(a, b) IN DyRound(DoubleBits, s[1], s[2], s[3], FALSE)

NumSub(a, b) == IF IsNaN(b) THEN NaN ELSE NumAdd(a, DyNeg(b))

NumMul(a, b) ==
    IF IsNaN(a) \/ IsNaN(b) THEN NaN
    ELSE DyRound(DoubleBits, a.neg # b.neg, BigTrim(BigMul(a.man, b.man)), a.exp + b.exp,
                 FALSE)

QuotientBits == 80

\* a / b for whole a >= 0 and 0 < b <= 2^13
NumDiv(a, b) ==
    LET qr == BigDivSmall(BigShiftLeft(BigNat(a), QuotientBits), b)
    IN  DyRound(DoubleBits, FALSE, qr[1], QuotientBits, qr[2] # 0)

\* Math.floor of a Number that is not negative
NumFloor(a) == BigToNat(BigShiftRight(a.man, a.exp)[1])

\* the value a Float32Array element takes when a Number is stored in it
ToFloat32(a) == IF IsNaN(a) THEN NaN ELSE DyRound(SingleBits, a.neg, a.man, a.exp, FALSE)

(***************************************************************************)
(* AudioEngine.createAudioBuffer, one iteration of its loop at a time      *)
(***************************************************************************)
targetSamples == 1837

lerp(a, b, t) == NumAdd(a, NumMul(NumSub(b, a), t))

\* an element of an array, undefined (NaN in arithmetic) outside it
ElementAt(array, k) == IF k \in DOMAIN array THEN array[k] ELSE NaN

\* const sourceIndex = (i / targetSamples) * sourceLength
SourceIndex(k, sourceLength) == NumMul(NumDiv(k, targetSamples), DyOfInt(sourceLength))

\* mutant: Math.min left out of index1
Index1Unclamped(first, sourceLength) == first + 1

\* const index1 = Math.min(index0 + 1, sourceLength - 1)
Index1(first, sourceLength) ==
    IF first + 1 < sourceLength - 1 THEN first + 1 ELSE sourceLength - 1

\* the call: ctx.createBuffer gives a buffer of targetSamples zeros
createAudioBuffer(waveform) ==
    /\ bufferPc = "idle"
    /\ waveformData' = waveform
    /\ channelData' = [k \in 0..(targetSamples - 1) |-> DyOfInt(0)]
    /\ sampleIndex' = 0
    /\ bufferPc' = "loop"
    /\ UNCHANGED <<index0, index1, audioBuffer>>
    /\ UNCHANGED <<callVars, locals, histVars, camVars, playVars>>
    /\ UNCHANGED <<selImage, roi, currentScreen, extractedWaveform, loadingOverlay,
                   errorMessage, timers, selVars>>

\* one iteration of "for (let i = 0; i < targetSamples; i++)"
ResampleStep ==
    /\ bufferPc = "loop"
    /\ sampleIndex < targetSamples
    /\ LET sourceLength == FLength(waveformData)
           sourceIndex  == SourceIndex(sampleIndex, sourceLength)
           first        == NumFloor(sourceIndex)
           second       == Index1(first, sourceLength)
           t            == NumSub(sourceIndex, DyOfInt(first))
       IN  /\ index0' = first
           /\ index1' = second
           /\ channelData' =
                 [channelData EXCEPT ![sampleIndex] =
                     ToFloat32(lerp(ElementAt(waveformData, first),
                                    ElementAt(waveformData, second), t))]
    /\ sampleIndex' = sampleIndex + 1
    /\ UNCHANGED <<waveformData, bufferPc, audioBuffer>>
    /\ UNCHANGED <<callVars, locals, histVars, camVars, playVars>>
    /\ UNCHANGED <<selImage, roi, currentScreen, extractedWaveform, loadingOverlay,
                   errorMessage, timers, selVars>>

\* this.currentBuffer = buffer; return buffer
ReturnBuffer ==
    /\ bufferPc = "loop"
    /\ sampleIndex = targetSamples
    /\ audioBuffer' = TRUE
    /\ bufferPc' = "idle"
    /\ UNCHANGED <<waveformData, channelData, sampleIndex, index0, index1>>
    /\ UNCHANGED <<callVars, locals, histVars, camVars, playVars>>
    /\ UNCHANGED <<selImage, roi, currentScreen, extractedWaveform, loadingOverlay,
                   errorMessage, timers, selVars>>

(***************************************************************************)
(* Specifications                                                          *)
(***************************************************************************)
\* one extraction per behaviour, made directly or through App
Next ==
    \/ \E p \in Patterns, b \in Rois : DirectCall(p, b)
    \/ DirectDone
    \/ Pipeline
    \/ \E p \in AppPatterns : CapturePhoto(p)
    \/ \E r \in AppRois : AdjustROI(r)
    \/ AppExtractWaveform
    \/ TimerFire
    \/ AppCallbackReturn
    \/ AppCallbackCatch

Spec == Init /\ [][Next]_vars

\* any number of direct calls; an earlier call may be remembered in memo
RepeatCall(p, bounds) ==
    /\ pc = "idle"
    /\ currentScreen = "capture"
    /\ LET img  == MkImage(p)
           last == [set |-> TRUE, imageData |-> imageData, roiBounds |-> roiBounds,
                    outcome |-> outcome]
           differs(m) == m.set /\ (m.imageData # img \/ m.roiBounds # bounds)
       IN  /\ Begin(img, bounds, "direct")
           /\ \/ /\ memo' = memo
                 /\ between' = (between \/ differs(memo))
              \/ /\ started
                 /\ memo' = last
                 /\ between' = differs(last)
    /\ UNCHANGED <<appVars, extVars, requested>>

\* the opacity given to the pixels of a buffer: 255, 0, or varying by pixel
Opacities == { "opaque", "clear", "mixed" }

WithOpacity(img, kind) ==
    [ img EXCEPT !.data =
        [ d \in DOMAIN img.data |->
            IF d % CHANNELS # 3 THEN img.data[d]
            ELSE IF kind = "opaque" THEN 255
            ELSE IF kind = "clear" THEN 0
            ELSE (7 * (d \div CHANNELS)) % 256 ] ]

OpacityPatterns == { Bands(3, 5, 15, Grey(0), Grey(255)) }

OpacityRois == { Region(0, 0, MIN_ROI, MIN_ROI), Region(MaxPad, 0, BufSize, MIN_ROI) }

\* a direct call on a buffer of some opacity; an earlier call may be
\* remembered in memo
OpacityCall(p, kind, bounds) ==
    /\ pc = "idle"
    /\ currentScreen = "capture"
    /\ LET last == [set |-> TRUE, imageData |-> imageData, roiBounds |-> roiBounds,
                    outcome |-> outcome]
       IN  /\ Begin(WithOpacity(MkImage(p), kind), bounds, "direct")
           /\ \/ memo' = memo
              \/ started /\ memo' = last
           /\ UNCHANGED <<between, requested>>
    /\ UNCHANGED <<appVars, extVars>>

NextOpacity ==
    \/ \E p \in OpacityPatterns, k \in Opacities, b \in OpacityRois : OpacityCall(p, k, b)
    \/ DirectDone
    \/ Pipeline

SpecOpacity == Init /\ [][NextOpacity]_vars

NextRepeat ==
    \/ \E p \in RepeatPatterns, b \in RepeatRois : RepeatCall(p, b)
    \/ DirectDone
    \/ Pipeline

SpecRepeat == Init /\ [][NextRepeat]_vars

\* sessions of App: captures, region changes, extraction requests, retakes
\* and new scans in any number and order
\* the regions selected in sessions: one inside the image, one that leaves it
SessionRois ==
    { Region(0, 0, MIN_ROI, MIN_ROI),
      Region((BufSize * 5) \div 100 + (BufSize * 12) \div 100 - MIN_SELECTION,
             (BufSize * 10) \div 100 + (BufSize * 80) \div 100 - MIN_SELECTION,
             MIN_SELECTION, MIN_SELECTION) }

NextApp ==
    \/ \E p \in AppPatterns : timers = <<>> /\ Capture(p)
    \/ \E r \in SessionRois : AdjustROI(r)
    \/ timers = <<>> /\ ExtractClick
    \/ timers = <<>> /\ retake
    \/ scanAnother
    \/ cameraRefused
    \/ TimerFire
    \/ AppCallbackReturn
    \/ AppCallbackCatch
    \/ Pipeline

SpecApp == Init /\ [][NextApp]_vars

\* sessions in which the handlers also run while an extraction is waiting
\* for its timer: nothing in App keeps a click from its handler then.  The
\* camera does not answer, so that MaxRequests bounds the returns to the
\* capture screen
RaceRois == { Region(0, 0, MIN_ROI, MIN_ROI) }

NextRace ==
    \/ \E p \in AppPatterns : Capture(p)
    \/ \E r \in RaceRois : AdjustROI(r)
    \/ ExtractClick
    \/ retake
    \/ scanAnother
    \/ TimerFire
    \/ AppCallbackReturn
    \/ AppCallbackCatch
    \/ Pipeline

SpecRace == Init /\ [][NextRace]_vars

\* one extraction, then playback
PlaybackPatterns == { Bands(3, 5, 15, Grey(0), Grey(255)) }

NextPlayback ==
    \/ \E p \in PlaybackPatterns : CapturePhoto(p)
    \/ \E r \in RaceRois : AdjustROI(r)
    \/ AppExtractWaveform
    \/ TimerFire
    \/ Pipeline
    \/ AppCallbackReturn
    \/ togglePlayback
    \/ playResumes
    \/ \E source \in 1..MaxSources : sourceEnds(source)
    \/ \E source \in 1..MaxSources : onended(source)
    \/ \E source \in 1..MaxSources : playTimerFires(source)
    \/ updateLoop
    \/ pageHidden
    \/ scanAnother

SpecPlayback == Init /\ [][NextPlayback]_vars

\* the page from its load: App.init, the camera, captures and returns to the
\* capture screen
Loaded ==
    /\ Constructed
    /\ initPc = "start"
    /\ errorMessage = "none"

NextCamera ==
    \/ init
    \/ \E granted \in BOOLEAN : initCameraSettles(granted)
    \/ cameraGranted
    \/ cameraRefused
    \/ \E p \in PlaybackPatterns : initPc # "start" /\ timers = <<>> /\ Capture(p)
    \/ \E r \in RaceRois : AdjustROI(r)
    \/ timers = <<>> /\ ExtractClick
    \/ timers = <<>> /\ retake
    \/ TimerFire
    \/ Pipeline
    \/ AppCallbackReturn
    \/ scanAnother

SpecCamera == Loaded /\ [][NextCamera]_vars

(***************************************************************************)
(* otsuThreshold and findBoundaries called on their own, on small fields   *)
(***************************************************************************)
RowWidth == 3

\* sample values: 3/2 falls into bin 1
Levels == { FInt(0), <<3, 2>>, FInt(255) }

UnitRows == [ 0..(RowWidth - 1) -> Levels ]

ConstRow(v) == [ x \in 0..(RowWidth - 1) |-> v ]

\* the row-major field of two rows
Stack(top, bottom) ==
    [ i \in 0..(2 * RowWidth - 1) |-> IF i < RowWidth THEN top[i] ELSE bottom[i - RowWidth] ]

\* any row above or below a flat row
UnitFields ==
    { Stack(r, ConstRow(v)) : r \in UnitRows, v \in Levels }
        \cup { Stack(ConstRow(v), r) : r \in UnitRows, v \in Levels }

UnitThresholds == { 0, 1, 254 }

InitUnit ==
    /\ InitExt
    /\ initPc = "done"
    /\ imageData = NoImage
    /\ roiBounds = Region(0, 0, 0, 0)
    /\ caller = "test"
    /\ roiData = Null /\ grayscale = Null /\ enhanced = Null
    /\ smoothed \in UnitFields
    /\ \/ pc = "otsuThreshold" /\ threshold = -1
       \/ pc = "findBoundaries" /\ threshold \in UnitThresholds
    /\ rawWaveform = Null /\ normalized = Null /\ dcRemoved = Null
    /\ finalWaveform = Null
    /\ outcome = NoOutcome
    /\ stages = <<>>
    /\ reads = 0
    /\ started = FALSE
    /\ selImage = NoImage
    /\ roi = Region(0, 0, 50, 200)
    /\ isDragging = FALSE /\ isResizing = FALSE /\ activeHandle = "none"
    /\ roiStart = Region(0, 0, 0, 0)
    /\ currentScreen = "capture"
    /\ extractedWaveform = Null
    /\ loadingOverlay = FALSE
    /\ errorMessage = "none"
    /\ timers = <<>>
    /\ audioBuffer = FALSE
    /\ memo = NoMemo
    /\ between = FALSE

\* threshold = ImageProcessor.otsuThreshold(field)
CallOtsuThreshold ==
    /\ pc = "otsuThreshold"
    /\ threshold' = otsuThreshold(smoothed)
    /\ pc' = "otsuThreshold returned"
    /\ UNCHANGED <<imageData, roiBounds, caller, outcome, stages, reads, started>>
    /\ UNCHANGED <<roiData, grayscale, enhanced, smoothed, rawWaveform,
                   normalized, dcRemoved, finalWaveform>>
    /\ UNCHANGED <<appVars, histVars, extVars>>

\* waveform = ImageProcessor.findBoundaries(field, width, height, threshold)
CallFindBoundaries ==
    /\ pc = "findBoundaries"
    /\ rawWaveform' = findBoundaries(smoothed, RowWidth, FLength(smoothed) \div RowWidth,
                                     threshold)
    /\ pc' = "findBoundaries returned"
    /\ UNCHANGED <<imageData, roiBounds, caller, outcome, stages, reads, started>>
    /\ UNCHANGED <<roiData, grayscale, enhanced, smoothed, threshold,
                   normalized, dcRemoved, finalWaveform>>
    /\ UNCHANGED <<appVars, histVars, extVars>>

NextUnit == CallOtsuThreshold \/ CallFindBoundaries

SpecUnit == InitUnit /\ [][NextUnit]_vars

\* AudioEngine.createAudioBuffer alone.  The waveforms: a single sample, three
\* samples of either sign, and 55 samples, a length for which i * 55 / 1837
\* is whole for i = 501 and i = 1002
AudioWaveforms ==
    { [k \in 0..0 |-> DyOfInt(1)],
      [k \in 0..2 |-> DyOf(1 - k, 1)],
      [k \in 0..54 |-> DyOf(IF k % 3 = 2 THEN 3 ELSE 0 - (k % 3), 2)] }

\* the first buffer made
FirstBuffer(w) == ~audioBuffer /\ createAudioBuffer(w)

NextAudio ==
    \/ \E w \in AudioWaveforms : FirstBuffer(w)
    \/ ResampleStep
    \/ ReturnBuffer

SpecAudio == Init /\ [][NextAudio]_vars

(***************************************************************************)
(* Properties                                                              *)
(***************************************************************************)
ValidSize(bounds) == bounds.width >= 20 /\ bounds.height >= 20

NoVariation == outcome = Thrown("NO_VARIATION")

Samples == outcome.samples

SampleCount == FLength(Samples)

Tolerance == <<1, 1000>>

FLeq(a, b) == ~FLess(b, a)

\* every pixel of the cropped region has the colour of its first pixel
UniformRegion ==
    \A d \in DOMAIN roiData : roiData[d] = roiData[d % CHANNELS]

\* every row of the cropped region equals its first row
IdenticalRows ==
    \A d \in DOMAIN roiData : roiData[d] = roiData[d % (roiBounds.width * CHANNELS)]

\* the call ran the pipeline on a region of valid size
Scanned ==
    /\ Ended
    /\ ValidSize(roiBounds)
    /\ \E i \in DOMAIN stages : stages[i] = "scan"

\* C1: for a region of valid size inside the buffer the call returns a waveform
\* of exactly region.height samples or throws NO_VARIATION, nothing else
C1_LengthOrNoVariation ==
    (Ended /\ ValidSize(roiBounds) /\ InBounds(imageData, roiBounds))
        => \/ outcome.kind = "waveform" /\ SampleCount = roiBounds.height
           \/ NoVariation

C1_Witness ==
    /\ Ended /\ InBounds(imageData, roiBounds)
    /\ roiBounds.width > roiBounds.height
    /\ roiBounds.height >= 20
    /\ outcome.kind = "waveform"
    /\ SampleCount = roiBounds.height

\* C2: a region narrower or lower than 20 makes the call throw ROI_TOO_SMALL
\* with no stage run and no element of the source buffer read; App never
\* schedules or makes the call for such a region
C2_TooSmallFailsFirst ==
    /\ (started /\ pc # "check" /\ ~ValidSize(roiBounds))
          => /\ pc \in {"throw", "idle"}
             /\ outcome = Thrown("ROI_TOO_SMALL")
             /\ stages = <<>>
             /\ reads = 0
    /\ \A i \in 1..Len(timers) : ValidSize(timers[i].bounds)
    /\ (caller = "app") => ValidSize(roiBounds)

C2_Witness ==
    /\ pc = "throw"
    /\ roiBounds.width = 19
    /\ roiBounds.height = 20
    /\ outcome = Thrown("ROI_TOO_SMALL")
    /\ reads = 0

\* C3 (as claimed): a region of valid size that leaves the source buffer makes
\* the call throw MalformedInput
C3_OutsideIsMalformed ==
    (Ended /\ ValidSize(roiBounds) /\ ~InBounds(imageData, roiBounds))
        => outcome = Thrown("MALFORMED_INPUT")

\* C4 (as claimed): every sample of a returned waveform lies in [-1, 1]
C4_SamplesInRange ==
    (Ended /\ outcome.kind = "waveform")
        => \A i \in DOMAIN Samples :
              FLeq(FInt(0 - 1), Samples[i]) /\ FLeq(Samples[i], FInt(1))

\* C5 (as claimed): the largest absolute sample of a returned waveform is 1, up
\* to tolerance
C5_PeakIsOne ==
    (Ended /\ outcome.kind = "waveform")
        => LET peak == FieldMax([i \in DOMAIN Samples |-> FAbs(Samples[i])], 0, SampleCount)
           IN  FLeq(FAbs(FSub(peak, FInt(1))), Tolerance)

\* C6 (as claimed): a returned waveform has zero arithmetic mean, up to tolerance
C6_ZeroMean ==
    (Ended /\ outcome.kind = "waveform")
        => FLeq(FAbs(FDiv(FieldSum(Samples, 0, SampleCount), FInt(SampleCount))), Tolerance)

\* C7: a call with the arguments of an earlier call has the outcome of the
\* earlier call, whatever calls were made before or between the two
C7_Deterministic ==
    (Ended /\ memo.set /\ memo.imageData = imageData /\ memo.roiBounds = roiBounds)
        => outcome = memo.outcome

C7_Witness ==
    /\ Ended /\ memo.set /\ memo.imageData = imageData /\ memo.roiBounds = roiBounds
    /\ between
    /\ outcome.kind = "waveform"
    /\ outcome = memo.outcome

\* C8: a region of valid size whose pixels all have one colour fails with
\* NO_VARIATION
C8_UniformIsNoVariation ==
    (Scanned /\ UniformRegion) => NoVariation

C8_Witness ==
    /\ Scanned /\ UniformRegion /\ InBounds(imageData, roiBounds)
    /\ roiData[0] = 0 /\ roiData[1] = 0 /\ roiData[2] = 0
    /\ NoVariation

\* mid-grey pixels everywhere, and the 4x4 region of Scenario A
ScenarioA ==
    /\ imageData = MkImage(Uniform(Grey(128)))
    /\ roiBounds = Region(0, 0, 4, 4)

\* C9 (as claimed): Scenario A fails with NO_VARIATION
C9_ScenarioANoVariation == (Ended /\ ScenarioA) => NoVariation

\* C9 (amended): Scenario A fails with ROI_TOO_SMALL, before any stage has run
\* and so without a raw waveform
C9_ScenarioATooSmall ==
    (Ended /\ ScenarioA)
        => outcome = Thrown("ROI_TOO_SMALL") /\ stages = <<>> /\ rawWaveform = Null

C9_Witness == pc = "throw" /\ ScenarioA /\ outcome.kind = "error"

\* C10: when all rows of a region of valid size are identical, all raw
\* amplitudes are equal and the call fails with NO_VARIATION
C10_IdenticalRowsNoVariation ==
    (Scanned /\ IdenticalRows)
        => /\ \A y \in DOMAIN rawWaveform : rawWaveform[y] = rawWaveform[0]
           /\ NoVariation

\* Scenario B: every row light in its left half, dark in its right half
C10_Witness ==
    /\ Scanned /\ IdenticalRows /\ NoVariation
    /\ roiBounds = Region(0, 0, 20, 20)
    /\ \A d \in DOMAIN roiData :
          roiData[d] = IF d % CHANNELS = 3 \/ (d \div CHANNELS) % 20 < 10 THEN 255 ELSE 0

\* Scenario C: a 20x20 region, a light band 5 pixels wide at the left of rows
\* 0-9 and 15 pixels wide at the left of rows 10-19, on a dark background
ScenarioC ==
    /\ roiBounds.width = 20 /\ roiBounds.height = 20
    /\ DOMAIN roiData = 0..(20 * 20 * CHANNELS - 1)
    /\ \A d \in DOMAIN roiData :
          LET col == (d \div CHANNELS) % 20
              row == (d \div CHANNELS) \div 20
              band == IF row < 10 THEN 5 ELSE 15
          IN  roiData[d] = IF d % CHANNELS = 3 \/ col < band THEN 255 ELSE 0

\* C11: Scenario C returns a waveform of exactly 20 samples; the samples of
\* rows 0-9 are negative and those of rows 10-19 positive
C11_ScenarioCTwoLevels ==
    (Ended /\ ScenarioC)
        => /\ outcome.kind = "waveform"
           /\ SampleCount = 20
           /\ \A i \in DOMAIN Samples :
                 IF i < 10 THEN FLess(Samples[i], FInt(0)) ELSE FLess(FInt(0), Samples[i])

C11_Witness ==
    /\ Ended /\ ScenarioC /\ InBounds(imageData, roiBounds)
    /\ outcome.kind = "waveform"
    /\ FLess(Samples[0], FInt(0))
    /\ FLess(FInt(0), Samples[19])

\* C12: a running call leaves the source buffer and the region as they were
\* passed in, and a call made again after calls on other regions of the same
\* buffer has the outcome it had before
C12_SourceUntouched ==
    /\ [][pc # "idle" => (imageData' = imageData /\ roiBounds' = roiBounds)]_vars
    /\ []((Ended /\ memo.set /\ between
             /\ memo.imageData = imageData /\ memo.roiBounds = roiBounds)
          => outcome = memo.outcome)

C12_Witness ==
    /\ pc = "return" /\ memo.set /\ between
    /\ memo.imageData = imageData
    /\ memo.roiBounds = roiBounds
    /\ roiBounds = Region(MaxPad, MaxPad, MIN_ROI, MIN_ROI)
    /\ imageData = MkImage(Bands(3, 5, 15, Grey(0), Grey(255)))
    /\ outcome = memo.outcome

\* C13: a failing call made for App changes neither the stored waveform, the
\* audio buffer nor the screen; its failure is handled in the same callback,
\* which hides the loading overlay, shows an error and schedules no new call
C13_AllOrNothing ==
    /\ [][(caller = "app" /\ pc \notin {"idle", "return"})
            => /\ extractedWaveform' = extractedWaveform
               /\ audioBuffer' = audioBuffer
               /\ currentScreen' = currentScreen]_vars
    /\ [][(caller = "app" /\ pc = "throw")
            => /\ pc' = "idle"
               /\ loadingOverlay' = FALSE
               /\ errorMessage' \in {"select a larger region", "region appears blank",
                                     "could not detect audio"}
               /\ timers' = <<>>]_vars

\* a failure in a later session: the audio buffer of the earlier success is
\* still there, the waveform is not
C13_Witness ==
    /\ pc = "idle" /\ caller = "app"
    /\ outcome = Thrown("NO_VARIATION")
    /\ audioBuffer
    /\ extractedWaveform = Null
    /\ currentScreen = "process"
    /\ ~loadingOverlay
    /\ errorMessage = "region appears blank"
    /\ timers = <<>>

\* the statements of extractWaveform after the size check, in program order
StageOrder ==
    <<"crop", "grayscale", "stretch", "blur", "threshold", "scan", "validate",
      "normalize", "dc", "smooth">>

\* C14: the stages of a call run once each in program order; NO_VARIATION is
\* thrown exactly when the variance of the raw amplitudes is below 0.01
\* squared, after the boundary scan and with no later stage run
C14_StagesInOrder ==
    /\ Len(stages) <= Len(StageOrder)
    /\ stages = SubSeq(StageOrder, 1, Len(stages))
    /\ outcome.kind = "waveform" => stages = StageOrder /\ ~BelowEpsilon(rawWaveform)
    /\ NoVariation => stages = SubSeq(StageOrder, 1, 7) /\ BelowEpsilon(rawWaveform)
    /\ (Len(stages) >= 7 /\ BelowEpsilon(rawWaveform)) => NoVariation

C14_Witness ==
    /\ Ended /\ NoVariation /\ InBounds(imageData, roiBounds)
    /\ ~UniformRegion
    /\ stages = SubSeq(StageOrder, 1, 7)
    /\ normalized = Null

\* the histogram bins that hold a sample of the field
OccupiedBins(field) == { HistBin(field[i]) : i \in DOMAIN field }

SetMax(S) == CHOOSE m \in S : \A x \in S : x <= m

SetMin(S) == CHOOSE m \in S : \A x \in S : m <= x

Contiguous(S) == \A b \in SetMin(S)..SetMax(S) : b \in S

\* the empty bins that have occupied bins on both sides
ClusterGaps(O) ==
    { g \in 0..(HIST_BINS - 1) : g \notin O /\ (\E b \in O : b < g) /\ (\E b \in O : b > g) }

LowerCluster(O) == { b \in O : b < SetMin(ClusterGaps(O)) }

UpperCluster(O) == { b \in O : b > SetMin(ClusterGaps(O)) }

\* two runs of occupied bins with empty bins between them
Bimodal(O) ==
    /\ ClusterGaps(O) # {}
    /\ Contiguous(LowerCluster(O))
    /\ Contiguous(UpperCluster(O))

\* C15 (as claimed): for a field of two clusters the threshold is strictly
\* above the highest bin of the lower cluster and strictly below the lowest
\* bin of the upper cluster
C15_ThresholdBetweenClusters ==
    (pc = "otsuThreshold returned" /\ Bimodal(OccupiedBins(smoothed)))
        => /\ SetMax(LowerCluster(OccupiedBins(smoothed))) < threshold
           /\ threshold < SetMin(UpperCluster(OccupiedBins(smoothed)))

BinCount(field, b) == Cardinality({ i \in DOMAIN field : HistBin(field[i]) = b })

\* the sum of the bin numbers of the samples whose bin is in S
RECURSIVE BinTotal(_, _)
BinTotal(field, S) ==
    IF S = {} THEN 0
    ELSE LET b == SetMin(S) IN b * BinCount(field, b) + BinTotal(field, S \ {b})

BackgroundWeight(field, t) == Cardinality({ i \in DOMAIN field : HistBin(field[i]) <= t })

\* the thresholds that leave both classes non-empty
Candidates(field) ==
    { t \in 0..(HIST_BINS - 1) :
        BackgroundWeight(field, t) > 0 /\ BackgroundWeight(field, t) < FLength(field) }

\* wB * wF * (mB - mF)^2 for threshold t, from the definition
BetweenClassVariance(field, t) ==
    LET O  == OccupiedBins(field)
        wB == BackgroundWeight(field, t)
        wF == FLength(field) - wB
        mB == Frac(BinTotal(field, { b \in O : b <= t }), wB)
        mF == Frac(BinTotal(field, { b \in O : b > t }), wF)
    IN  FMul(FInt(wB * wF), FMul(FSub(mB, mF), FSub(mB, mF)))

\* C16: the threshold returned is in 0..255; it is 0 when all samples fall in
\* one bin; otherwise it is the lowest of the candidates of greatest
\* between-class variance
C16_LowestMaximiser ==
    pc = "otsuThreshold returned"
        => /\ threshold \in 0..(HIST_BINS - 1)
           /\ IF Candidates(smoothed) = {} THEN threshold = 0
              ELSE /\ threshold \in Candidates(smoothed)
                   /\ \A t \in Candidates(smoothed) :
                         /\ ~FLess(BetweenClassVariance(smoothed, threshold),
                                   BetweenClassVariance(smoothed, t))
                         /\ t < threshold
                              => FLess(BetweenClassVariance(smoothed, t),
                                       BetweenClassVariance(smoothed, threshold))

\* three occupied bins, the greatest variance not at the first candidate, and
\* later candidates that tie with it
C16_Witness ==
    /\ pc = "otsuThreshold returned"
    /\ OccupiedBins(smoothed) = {0, 1, 255}
    /\ threshold = 1
    /\ BetweenClassVariance(smoothed, 1) = BetweenClassVariance(smoothed, 2)

\* the rows of the field findBoundaries was called on
UnitRowIndices == 0..((FLength(smoothed) \div RowWidth) - 1)

Sample(y, x) == smoothed[y * RowWidth + x]

IsLight(y, x) == FLess(FInt(threshold), Sample(y, x))

Columns == 0..(RowWidth - 1)

\* C17: a row whose samples are all above the threshold gets leftEdge 0 and
\* rightEdge width from the light-first scan, and so the raw amplitude 1
C17_LightRowIsOne ==
    pc = "findBoundaries returned"
        => \A y \in UnitRowIndices :
              (\A x \in Columns : IsLight(y, x))
                 => /\ ScanEdges(smoothed, y * RowWidth, RowWidth, threshold, TRUE)
                          = <<0, RowWidth>>
                    /\ RowEdges(smoothed, RowWidth, threshold, y) = <<0, RowWidth>>
                    /\ rawWaveform[y] = FInt(1)

\* a light row that is not white: its mean brightness over 255 is not 1
C17_Witness ==
    /\ pc = "findBoundaries returned"
    /\ threshold = 1
    /\ \A x \in Columns : IsLight(0, x)
    /\ Sample(0, 0) = <<3, 2>>
    /\ rawWaveform[0] = FInt(1)

UniformRow(y) == \A x \in Columns : Sample(y, x) = Sample(y, 0)

\* C18 (as claimed): for a row of equal samples neither scan finds a leftEdge
\* and the raw amplitude is the row's mean brightness over 255
C18_UniformRowIsBrightness ==
    pc = "findBoundaries returned"
        => \A y \in UnitRowIndices :
              UniformRow(y)
                 => /\ RowEdges(smoothed, RowWidth, threshold, y)[1] = -1
                    /\ rawWaveform[y] = FDiv(Sample(y, 0), FInt(255))

\* the first column of S, and the first column of T after it or else the width
FirstRun(S, T) ==
    LET first == SetMin(S)
        later == { x \in T : x > first }
    IN  <<first, IF later = {} THEN RowWidth ELSE SetMin(later)>>

\* the ordered strategies: light first, dark first only if no sample is light
ReferenceEdges(y) ==
    LET light == { x \in Columns : IsLight(y, x) }
        dark  == Columns \ light
    IN  IF light # {} THEN FirstRun(light, dark) ELSE FirstRun(dark, light)

\* C19: for every row the edges found are those of the ordered strategies and
\* the raw amplitude is (rightEdge - leftEdge) / width
C19_MatchesReference ==
    pc = "findBoundaries returned"
        => \A y \in UnitRowIndices :
              /\ RowEdges(smoothed, RowWidth, threshold, y) = ReferenceEdges(y)
              /\ rawWaveform[y] = Frac(ReferenceEdges(y)[2] - ReferenceEdges(y)[1], RowWidth)

\* a row dark, light, dark: the light run starts at column 1 and ends at 2
C19_Witness ==
    /\ pc = "findBoundaries returned"
    /\ ~IsLight(0, 0) /\ IsLight(0, 1) /\ ~IsLight(0, 2)
    /\ ReferenceEdges(0) = <<1, 2>>
    /\ rawWaveform[0] = Frac(1, RowWidth)

RowOf(y) == [ x \in Columns |-> Sample(y, x) ]

\* C20: the amplitude of a row is the same whatever the other row of the
\* field holds: replacing the other row by any row leaves it unchanged
C20_RowsIndependent ==
    pc = "findBoundaries returned"
        => \A other \in UnitRows :
              /\ findBoundaries(Stack(RowOf(0), other), RowWidth, 2, threshold)[0]
                    = rawWaveform[0]
              /\ findBoundaries(Stack(other, RowOf(1)), RowWidth, 2, threshold)[1]
                    = rawWaveform[1]

\* a row with a dark first sample below a row that has a light one
C20_Witness ==
    /\ pc = "findBoundaries returned"
    /\ IsLight(0, 0)
    /\ ~IsLight(1, 0) /\ IsLight(1, 1)
    /\ rawWaveform[1] = findBoundaries(Stack(RowOf(1), RowOf(1)), RowWidth, 2, threshold)[0]
    /\ rawWaveform[1] # rawWaveform[0]

\* two buffers of one size that agree on the three colour channels of every
\* pixel
SameColours(a, b) ==
    /\ a.width = b.width /\ a.height = b.height
    /\ DOMAIN a.data = DOMAIN b.data
    /\ \A d \in DOMAIN a.data : d % CHANNELS # 3 => a.data[d] = b.data[d]

\* C21: a call on a buffer that differs from the buffer of an earlier call in
\* opacity values only, with the same region, has the outcome of the earlier
\* call
C21_OpacityIgnored ==
    (Ended /\ memo.set /\ SameColours(memo.imageData, imageData)
       /\ memo.roiBounds = roiBounds)
        => outcome = memo.outcome

C21_Witness ==
    /\ pc = "return" /\ memo.set
    /\ SameColours(memo.imageData, imageData)
    /\ memo.imageData # imageData
    /\ memo.roiBounds = roiBounds
    /\ imageData.data[3] = 0
    /\ outcome = memo.outcome

\* C22 (as claimed): the region the selector hands out lies inside its image
C22_RegionInsideImage ==
    selImage # NoImage => InBounds(selImage, getROIBounds)

\* Scenario B: a 20x20 region, every row light in columns 0-9 and dark in
\* columns 10-19
ScenarioB ==
    /\ roiBounds = Region(0, 0, 20, 20)
    /\ DOMAIN roiData = 0..(20 * 20 * CHANNELS - 1)
    /\ \A d \in DOMAIN roiData :
          roiData[d] = IF d % CHANNELS = 3 \/ (d \div CHANNELS) % 20 < 10 THEN 255 ELSE 0

\* C23 (as claimed): in Scenario B the raw amplitude of every row is 1/2
C23_ScenarioBHalf ==
    (Scanned /\ ScenarioB)
        => \A y \in DOMAIN rawWaveform : rawWaveform[y] = Frac(1, 2)

\* C25: every raw amplitude findBoundaries produces is k / width for a whole
\* k in 1..width, and a row without a sample above the threshold gets 1
C25_RawAmplitudeIsRunLength ==
    pc = "findBoundaries returned"
        => \A y \in UnitRowIndices :
              /\ \E k \in 1..RowWidth : rawWaveform[y] = Frac(k, RowWidth)
              /\ (\A x \in Columns : ~IsLight(y, x)) => rawWaveform[y] = FInt(1)

\* a row of unequal samples none of which is above the threshold, next to a
\* row entirely above it: both get 1
C25_Witness ==
    /\ pc = "findBoundaries returned"
    /\ \E y \in UnitRowIndices :
          /\ \A x \in Columns : ~IsLight(y, x)
          /\ ~UniformRow(y)
          /\ rawWaveform[y] = FInt(1)
    /\ \E y \in UnitRowIndices :
          /\ \A x \in Columns : IsLight(y, x)
          /\ rawWaveform[y] = FInt(1)

Between(x, a, b) ==
    \/ DyLeq(a, x) /\ DyLeq(x, b)
    \/ DyLeq(b, x) /\ DyLeq(x, a)

\* the iteration of createAudioBuffer's loop that has just run
LastIndex == sampleIndex - 1

Resampled == bufferPc = "loop" /\ sampleIndex > 0

\* C24 (as claimed): the buffer has 1837 samples; for every output index i
\* the source indices used are floor(i * L / 1837) and the minimum of that
\* plus one and L - 1, both within 0..L-1; the output sample lies between
\* those two source samples; and output sample 0 is waveform[0]
C24_ResampleExactIndices ==
    Resampled
        => LET L == FLength(waveformData)
               j == (LastIndex * L) \div targetSamples
               n == IF j + 1 < L - 1 THEN j + 1 ELSE L - 1
           IN  /\ DOMAIN channelData = 0..(targetSamples - 1)
               /\ index0 = j /\ index1 = n
               /\ index0 \in 0..(L - 1) /\ index1 \in 0..(L - 1)
               /\ Between(channelData[LastIndex], waveformData[j], waveformData[n])
               /\ channelData[0] = waveformData[0]

\* C24 (amended): as claimed, but the first source index is the floor of
\* the double-precision value of (i / 1837) * L, which is floor(i * L / 1837)
\* or, only where i * L / 1837 is whole and i > 0, one less than that
C24_ResampleRoundedIndices ==
    Resampled
        => LET L == FLength(waveformData)
               j == (LastIndex * L) \div targetSamples
           IN  /\ DOMAIN channelData = 0..(targetSamples - 1)
               /\ index0 \in {j - 1, j}
               /\ index0 # j => (LastIndex > 0 /\ (LastIndex * L) % targetSamples = 0)
               /\ index1 = (IF index0 + 1 < L - 1 THEN index0 + 1 ELSE L - 1)
               /\ index0 \in 0..(L - 1) /\ index1 \in 0..(L - 1)
               /\ Between(channelData[LastIndex], waveformData[index0],
                          waveformData[index1])
               /\ channelData[0] = waveformData[0]

\* output sample 501 of a waveform of 55 samples: 501 * 55 / 1837 is 15, the
\* source indices used are 14 and 15, and the sample is strictly between
\* waveform[15] = 0 and waveform[14]
C24_Witness ==
    /\ Resampled
    /\ FLength(waveformData) = 55
    /\ LastIndex = 501
    /\ index0 = 14 /\ index1 = 15
    /\ waveformData[15] = DyOfInt(0)
    /\ DyLess(DyOfInt(0), channelData[LastIndex])
    /\ DyLess(channelData[LastIndex], waveformData[14])

\* C26 (as claimed): once retake or scanAnother has returned the app to the
\* capture screen, the playback screen is not shown until an image has been
\* captured and an extraction requested again
C26_NoPlaybackAfterReturn == currentScreen = "playback" => requested

C27_TimerStopsOwnPlayback ==
    [][\A source \in playTimers :
          (/\ source \notin playTimers'
           /\ currentSource # 0
           /\ sources[currentSource].state = "playing"
           /\ sources'[currentSource].state = "stopped")
              => currentSource = source]_vars

\* C28 (as claimed): AudioEngine.isPlaying is true while the source started
\* last is playing
C28_IsPlayingWhilePlaying ==
    (sources # <<>> /\ sources[Len(sources)].state = "playing")
        => AudioEngine_isPlaying

\* C29 (as claimed): at most one camera stream is open at any time
C29_OneStream == Cardinality(liveStreams) <= 1

====
